---- MODULE Spec2Model ----
(***************************************************************************)
(* Face-recognition attendance system: the Socket.IO streaming server     *)
(* (server.py), the attendance store (database.py), the REST mark         *)
(* endpoint (fastAPI.py) and the desktop sampling loop (face_detector.py) *)
(* as one state machine.                                                   *)
(*                                                                         *)
(* Left out of the state: the columns and fields that are written once    *)
(* and never read back by the code modelled here (created_at, last_seen,  *)
(* check_in_time, start_time, names, photos).                             *)
(*                                                                         *)
(* Store calls are atomic: SQLite serialises writers, and every call of   *)
(* database.py opens its own connection, executes one statement and       *)
(* commits.  A store call may fail (locked database, I/O error); the      *)
(* failure is an input of the action that makes the call.                 *)
(***************************************************************************)
EXTENDS Integers, Sequences, FiniteSets, TLC

\* ---------------------------------------------------------------- bounds
MaxSids == 2
MaxStudents == 2
MaxDbSessions == 2
MaxFaces == 2
MaxTime == 2
MaxInFlight == 1
MaxFrameCount == 60
MaxGallery == 3
MaxCoord == 3
MaxTolerance == 3
Scale == 2
MaxPixel == 2

Sids == 1..MaxSids
Students == 1..MaxStudents
DbIds == 1..MaxDbSessions

\* Python's None / SQL NULL
None == 0

VARIABLES
    sessions,        \* SessionManager.sessions: session_id -> info (session ids are 1, 2, ...)
    sid_to_session,  \* SessionManager.sid_to_session: sid -> session_id
    connected,       \* sids whose transport connection is open
    db_sessions,     \* table sessions: id -> row (AUTOINCREMENT ids 1, 2, ...)
    attendance,      \* table attendance: the number of rows per (session_id, student_id)
    frames,          \* per sid: the frame event being handled
    desk,            \* the desktop loop: FaceDetector.marked_students and the loop's locals
    detect,          \* the one-shot detect request being answered by the REST server,
                     \* and the gallery of the REST server's detector
    students,        \* table students: id -> row (AUTOINCREMENT ids 1, 2, ...)
    main_known_students,  \* the gallery run_detection matches against, in the
                     \* streaming server's process.  main.py is not among the
                     \* sources: server.py imports run_detection alone and calls it
                     \* for a frame only, and no handler of server.py asks the
                     \* detector to reload
    called,          \* history: the (session, student) pairs a mark call was made for
    req,             \* the event the last step handled: its name, its sid, for a frame
                     \* the kind of payload, for a stop_detection the detection flag
                     \* it found ("on", "off"), for a face the student matched
    out,             \* what the last step emitted or replied
    call             \* the mark call the last step made on the store (NoCall: none)

vars == <<sessions, sid_to_session, connected, db_sessions, attendance,
          frames, desk, detect, students, main_known_students, called, req, out, call>>


\* ------------------------------------------------------------- dict helpers
MapPut(m, k, v) == [x \in (DOMAIN m) \cup {k} |-> IF x = k THEN v ELSE m[x]]

MapPop(m, k) == [x \in (DOMAIN m) \ {k} |-> m[x]]

EmptyMap == [x \in {} |-> None]

\* ------------------------------------------------------------------ store
\* attendance[<<s, i>>] is the number of rows of the table with session_id = s and
\* student_id = i (the other columns, id, check_in_time and status, are left out)
Pairs == DbIds \X Students

NoRows == [p \in Pairs |-> 0]

HasRecord(att, s, i) == att[<<s, i>>] > 0

Insert(att, s, i) == [att EXCEPT ![<<s, i>>] = @ + 1]

\* a plain INSERT, on a table without the UNIQUE constraint
InsertAlways(att, s, i) == [att |-> Insert(att, s, i), rowcount |-> 1]

\* INSERT OR IGNORE INTO attendance under UNIQUE(session_id, student_id):
\* the new table and the statement's rowcount
InsertOrIgnore(att, s, i) ==
    IF HasRecord(att, s, i)
    THEN [att |-> att, rowcount |-> 0]
    ELSE [att |-> Insert(att, s, i), rowcount |-> 1]

\* mark_attendance without the test of rowcount
mark_attendance_unchecked(att, s, i, fail) ==
    IF fail # "none"
    THEN [att |-> att, result |-> FALSE]
    ELSE [att |-> InsertOrIgnore(att, s, i).att, result |-> TRUE]

\* fail: "none", "caught" (the statement raised inside the try block)
mark_attendance(att, s, i, fail) ==
    IF fail # "none"
    THEN [att |-> att, result |-> FALSE]
    ELSE LET r == InsertOrIgnore(att, s, i)
         IN  [att |-> r.att, result |-> r.rowcount > 0]

\* mark_attendance_socketIO without the test of rowcount
mark_attendance_socketIO_unchecked(att, s, i, fail) ==
    IF fail # "none"
    THEN [att |-> att, result |-> FALSE, message |-> "null"]
    ELSE [att |-> InsertOrIgnore(att, s, i).att, result |-> TRUE, message |-> "marked"]

\* a mark_attendance_socketIO that reports a failed insert as a new record
mark_attendance_socketIO_failing_open(att, s, i, fail) ==
    IF fail # "none"
    THEN [att |-> att, result |-> TRUE, message |-> "marked"]
    ELSE LET r == InsertOrIgnore(att, s, i)
         IN  IF r.rowcount > 0
             THEN [att |-> r.att, result |-> TRUE, message |-> "marked"]
             ELSE [att |-> r.att, result |-> FALSE, message |-> "already_marked"]

mark_attendance_socketIO(att, s, i, fail) ==
    IF fail # "none"
    THEN [att |-> att, result |-> FALSE, message |-> "null"]
    ELSE LET r == InsertOrIgnore(att, s, i)
         IN  IF r.rowcount > 0
             THEN [att |-> r.att, result |-> TRUE, message |-> "marked"]
             ELSE [att |-> r.att, result |-> FALSE, message |-> "already_marked"]

\* INSERT INTO sessions: the new table and the returned id (None on failure)
create_session(dbs, fail) ==
    IF fail
    THEN [dbs |-> dbs, id |-> None]
    ELSE [dbs |-> Append(dbs, [end_time |-> None]), id |-> Len(dbs) + 1]

\* The clock readings: datetime.now() formatted to the second.  A reading is never
\* earlier than one the store already holds.
Times == 1..MaxTime

RECURSIVE Latest(_)
Latest(dbs) ==
    IF dbs = <<>> THEN 1
    ELSE LET rest == Latest(Tail(dbs))
         IN  IF Head(dbs).end_time > rest THEN Head(dbs).end_time ELSE rest

\* an UPDATE without its WHERE clause
end_session_everywhere(dbs, id, t, fail) ==
    IF fail THEN dbs ELSE [d \in DOMAIN dbs |-> [dbs[d] EXCEPT !.end_time = t]]

\* UPDATE sessions SET end_time = t WHERE id = ?
end_session(dbs, id, t, fail) ==
    IF fail \/ id \notin DOMAIN dbs
    THEN dbs
    ELSE [dbs EXCEPT ![id].end_time = t]

\* --------------------------------------------------------- SessionManager
\* a session info that would have detection on from the start
NewSessionInfoDetecting(sid) ==
    [sid |-> sid, active |-> TRUE, detection |-> TRUE, db_session_id |-> None]

NewSessionInfo(sid) ==
    [sid |-> sid, active |-> TRUE, detection |-> FALSE, db_session_id |-> None]

\* a create_session_for_sid that keeps the session a sid already has
create_session_for_sid_once(ss, map, sid) ==
    IF sid \in DOMAIN map
    THEN [sessions |-> ss, sid_to_session |-> map]
    ELSE [sessions |-> Append(ss, NewSessionInfo(sid)),
          sid_to_session |-> MapPut(map, sid, Len(ss) + 1)]

\* the registry after create_session_for_sid(sid)
create_session_for_sid(ss, map, sid) ==
    [sessions |-> Append(ss, NewSessionInfo(sid)),
     sid_to_session |-> MapPut(map, sid, Len(ss) + 1)]

\* the session id stored for sid, None when there is none
get_by_sid(map, sid) == IF sid \in DOMAIN map THEN map[sid] ELSE None

\* a set_detection that writes the flag of every stored session
set_detection_everywhere(ss, map, sid, enabled) ==
    [id \in DOMAIN ss |-> [ss[id] EXCEPT !.detection = enabled]]

set_detection(ss, map, sid, enabled) ==
    LET id == get_by_sid(map, sid)
    IN  IF id = None THEN ss
        ELSE [ss EXCEPT ![id].detection = enabled]

\* a mark_inactive that does nothing
mark_inactive_skipped(ss, map, sid) == [sessions |-> ss, sid_to_session |-> map]

\* a mark_inactive that keeps the reverse mapping
mark_inactive_keeping_sid(ss, map, sid) ==
    LET id == get_by_sid(map, sid)
    IN  IF id = None
        THEN [sessions |-> ss, sid_to_session |-> map]
        ELSE [sessions |-> [ss EXCEPT ![id].active = FALSE], sid_to_session |-> map]

\* a mark_inactive that would remove the mapping and leave the session active
mark_inactive_keeping_active(ss, map, sid) ==
    [sessions |-> ss, sid_to_session |-> MapPop(map, sid)]

mark_inactive(ss, map, sid) ==
    LET id == get_by_sid(map, sid)
    IN  IF id = None
        THEN [sessions |-> ss, sid_to_session |-> map]
        ELSE [sessions |-> [ss EXCEPT ![id].active = FALSE],
              sid_to_session |-> MapPop(map, sid)]

\* ------------------------------------------------------------------ steps
Socket(sid) == [kind |-> "socket", sid |-> sid]

Rest == [kind |-> "rest", sid |-> None]

Desk == [kind |-> "desk", sid |-> None]

NoCall == [caller |-> [kind |-> "none", sid |-> None], session_id |-> None,
           student_id |-> None, result |-> FALSE, fail |-> "none", first |-> FALSE]

\* a call of mark_attendance or mark_attendance_socketIO: who made it, its arguments,
\* what it reported, how the store failed, and whether it is the first call for the pair
MarkCall(caller, s, i, result, fail) ==
    [caller |-> caller, session_id |-> s, student_id |-> i, result |-> result,
     fail |-> fail, first |-> <<s, i>> \notin called]

Event(name, sid, payload, student_id) ==
    [event |-> name, sid |-> sid, payload |-> payload, student_id |-> student_id]

\* the desktop program before start_attendance_session is called
DeskOff == [pc |-> "off", session_id |-> None, frame_count |-> 0,
            marked_students |-> {}, n |-> 0]

\* emitted (history): the attendance_marked notifications the handler has emitted for
\* the frame so far
IdleFrame == [pc |-> "idle", session |-> None, db_session_id |-> None, n |-> 0,
              records |-> <<>>, emitted |-> <<>>]

\* the REST server between two detect requests; known_encodings and known_students
\* are the gallery of its detector, which stays as the last request loaded it
\* before (history): the students that had a record in the request's session when
\* the request came in
NoRequest == [pc |-> "idle", session_id |-> None, known_encodings |-> <<>>,
              known_students |-> <<>>, students |-> <<>>, before |-> {}]

\* the sids with a frame event being handled
InFlight == {s \in Sids : frames[s].pc # "idle"}

\* the programs have just started, on a store whose table students is `table' and
\* that has no session yet: FaceDetector.__init__ leaves the galleries empty
InitStore(table) ==
    /\ sessions = <<>>
    /\ sid_to_session = EmptyMap
    /\ connected = {}
    /\ db_sessions = <<>>
    /\ attendance = NoRows
    /\ frames = [s \in Sids |-> IdleFrame]
    /\ desk = DeskOff
    /\ detect = NoRequest
    /\ students = table
    /\ main_known_students = <<>>
    /\ called = {}
    /\ req = Event("init", None, "", None)
    /\ out = <<>>
    /\ call = NoCall

\* a new store
Init == InitStore(<<>>)

\* the tables of at most MaxStudents rows, none of them removed
Tables == UNION {[1..k -> {"null", "encoding"}] : k \in 0..MaxStudents}

\* a store in which students were enrolled before the programs started
InitEnrolled == \E table \in Tables : InitStore(table)

\* Socket.IO names every new connection with a fresh sid: here the next integer
handle_connect(sid) ==
    /\ sid \notin connected
    /\ sid = Len(sessions) + 1
    /\ LET r == create_session_for_sid(sessions, sid_to_session, sid)
       IN  /\ sessions' = r.sessions
           /\ sid_to_session' = r.sid_to_session
           /\ out' = <<[event |-> "session_created", sid |-> sid,
                        session_id |-> Len(sessions) + 1]>>
    /\ connected' = connected \cup {sid}
    /\ req' = Event("connect", sid, "", None)
    /\ call' = NoCall
    /\ UNCHANGED <<db_sessions, attendance, frames, desk, detect, students,
                   main_known_students, called>>

\* handle_connect for a sid that has a session: the handler does not look the sid up
\* before it opens a session for it
handle_connect_again(sid) ==
    /\ sid \in DOMAIN sid_to_session
    /\ Len(sessions) <= MaxSids
    /\ LET r == create_session_for_sid(sessions, sid_to_session, sid)
       IN  /\ sessions' = r.sessions
           /\ sid_to_session' = r.sid_to_session
           /\ out' = <<[event |-> "session_created", sid |-> sid,
                        session_id |-> Len(sessions) + 1]>>
    /\ connected' = connected \cup {sid}
    /\ req' = Event("connect", sid, "", None)
    /\ call' = NoCall
    /\ UNCHANGED <<db_sessions, attendance, frames, desk, detect, students,
                   main_known_students, called>>

\* a disconnect that also ends the linked ledger session
handle_disconnect_closing(sid) ==
    LET id == get_by_sid(sid_to_session, sid)
        r == mark_inactive(sessions, sid_to_session, sid)
    IN  /\ sid \in connected
        /\ sessions' = r.sessions
        /\ sid_to_session' = r.sid_to_session
        /\ db_sessions' = IF id # None /\ sessions[id].db_session_id # None
                          THEN end_session(db_sessions, sessions[id].db_session_id,
                                           Latest(db_sessions), FALSE)
                          ELSE db_sessions
        /\ connected' = connected \ {sid}
        /\ req' = Event("disconnect", sid, "", None)
        /\ out' = <<>>
        /\ call' = NoCall
        /\ UNCHANGED <<attendance, frames, desk, detect, students, main_known_students,
                       called>>

\* a disconnect that drops the frame being handled for the connection
handle_disconnect_aborting(sid) ==
    /\ sid \in connected
    /\ LET r == mark_inactive(sessions, sid_to_session, sid)
       IN  /\ sessions' = r.sessions
           /\ sid_to_session' = r.sid_to_session
    /\ connected' = connected \ {sid}
    /\ frames' = [frames EXCEPT ![sid] = IdleFrame]
    /\ req' = Event("disconnect", sid, "", None)
    /\ out' = <<>>
    /\ call' = NoCall
    /\ UNCHANGED <<db_sessions, attendance, desk, detect, students, main_known_students,
                   called>>

handle_disconnect(sid) ==
    /\ sid \in connected
    /\ LET r == mark_inactive(sessions, sid_to_session, sid)
       IN  /\ sessions' = r.sessions
           /\ sid_to_session' = r.sid_to_session
    /\ connected' = connected \ {sid}
    /\ req' = Event("disconnect", sid, "", None)
    /\ out' = <<>>
    /\ call' = NoCall
    /\ UNCHANGED <<db_sessions, attendance, frames, desk, detect, students,
                   main_known_students, called>>

\* an error that is acknowledged like a skipped frame
ErrorAsSkipped(sid, detail) == [event |-> "detection_skipped", sid |-> sid, detail |-> detail]

Error(sid, detail) == [event |-> "error", sid |-> sid, detail |-> detail]

\* a start_detection that creates a ledger session every time
AlwaysNeedsDbSession(ss, id) == TRUE

\* a start_detection that would leave detection off when the ledger session cannot be
\* created
handle_start_detection_strict(sid, fail) ==
    LET id == get_by_sid(sid_to_session, sid)
    IN  /\ req' = Event("start_detection", sid, "", None)
        /\ call' = NoCall
        /\ UNCHANGED <<sid_to_session, connected, attendance, frames, desk, detect,
                       students, main_known_students, called>>
        /\ IF id = None
           THEN /\ ~fail
                /\ out' = <<Error(sid, "session_not_found")>>
                /\ UNCHANGED <<sessions, db_sessions>>
           ELSE LET create == sessions[id].db_session_id = None
                    r == create_session(db_sessions, fail)
                    linked == IF create
                              THEN [sessions EXCEPT ![id].db_session_id = r.id]
                              ELSE sessions
                    enabled == IF create /\ fail THEN linked
                               ELSE set_detection(linked, sid_to_session, sid, TRUE)
                IN  /\ create /\ ~fail => Len(db_sessions) < MaxDbSessions
                    /\ ~create => ~fail
                    /\ db_sessions' = IF create THEN r.dbs ELSE db_sessions
                    /\ sessions' = enabled
                    /\ out' = <<[event |-> "detection_started", sid |-> sid,
                                 session_id |-> id,
                                 db_session_id |-> enabled[id].db_session_id]>>

\* `if session.get('db_session_id') is None`
NeedsDbSession(ss, id) == ss[id].db_session_id = None

handle_start_detection(sid, fail) ==
    LET id == get_by_sid(sid_to_session, sid)
    IN  /\ req' = Event("start_detection", sid, "", None)
        /\ call' = NoCall
        /\ UNCHANGED <<sid_to_session, connected, attendance, frames, desk, detect,
                       students, main_known_students, called>>
        /\ IF id = None
           THEN /\ ~fail
                /\ out' = <<Error(sid, "session_not_found")>>
                /\ UNCHANGED <<sessions, db_sessions>>
           ELSE LET create == NeedsDbSession(sessions, id)
                    r == create_session(db_sessions, fail)
                    linked == IF create
                              THEN [sessions EXCEPT ![id].db_session_id = r.id]
                              ELSE sessions
                    enabled == set_detection(linked, sid_to_session, sid, TRUE)
                IN  /\ create /\ ~fail => Len(db_sessions) < MaxDbSessions
                    /\ ~create => ~fail
                    /\ db_sessions' = IF create THEN r.dbs ELSE db_sessions
                    /\ sessions' = enabled
                    /\ out' = <<[event |-> "detection_started", sid |-> sid,
                                 session_id |-> id,
                                 db_session_id |-> enabled[id].db_session_id]>>

handle_stop_detection(sid, t, fail) ==
    LET id == get_by_sid(sid_to_session, sid)
    IN  /\ req' = Event("stop_detection", sid,
                        IF id = None THEN ""
                        ELSE IF sessions[id].detection THEN "on" ELSE "off", None)
        /\ call' = NoCall
        /\ UNCHANGED <<sid_to_session, connected, attendance, frames, desk, detect,
                       students, main_known_students, called>>
        /\ IF id = None
           THEN /\ ~fail /\ t = 1
                /\ out' = <<Error(sid, "session_not_found")>>
                /\ UNCHANGED <<sessions, db_sessions>>
           ELSE LET disabled == set_detection(sessions, sid_to_session, sid, FALSE)
                    db_session_id == disabled[id].db_session_id
                IN  /\ t >= Latest(db_sessions)
                    /\ db_session_id = None => ~fail /\ t = Latest(db_sessions)
                    /\ sessions' = disabled
                    /\ db_sessions' = IF db_session_id # None
                                      THEN end_session(db_sessions, db_session_id, t, fail)
                                      ELSE db_sessions
                    /\ out' = <<[event |-> "detection_stopped", sid |-> sid,
                                 session_id |-> id]>>

\* a detection_result that would list the attendance entries last to first
DetectionResultReversed(sid, session, db_session_id, n, records) ==
    [event |-> "detection_result", sid |-> sid, session_id |-> session,
     db_session_id |-> db_session_id, faces |-> n,
     attendance |-> [k \in 1..Len(records) |-> records[Len(records) + 1 - k]]]

DetectionResult(sid, session, db_session_id, n, records) ==
    [event |-> "detection_result", sid |-> sid, session_id |-> session,
     db_session_id |-> db_session_id, faces |-> n, attendance |-> records]

\* a handle_frame without the test of the detection flag
DetectionAssumed(ss, id) == TRUE

\* `if not session.get('detection')`
DetectionEnabled(ss, id) == ss[id].detection

\* handle_frame from the start to the read of db_session_id (and to the end, when no
\* DB session is linked: the loop over the faces is not entered).
\* payload: "not_object", "no_image", "bad_base64" (the decode raises),
\*          "not_image" (imdecode returns None), "image"
\* detection: "raises" or "returns", the outcome of run_detection(frame); the faces it
\*          returns are drawn one per iteration of the loop (frame_mark), n of them
\*          when the loop is not entered
handle_frame(sid, payload, detection, n) ==
    LET id == get_by_sid(sid_to_session, sid)
        reply(e) == out' = <<e>> /\ UNCHANGED frames
        \* the inputs that are read on the path taken
        decoded == id # None /\ payload = "image" /\ DetectionEnabled(sessions, id)
        counted == decoded /\ detection = "returns" /\ sessions[id].db_session_id = None
    IN  /\ frames[sid].pc = "idle"
        /\ Cardinality(InFlight) < MaxInFlight
        /\ ~decoded => detection = "returns"
        /\ ~counted => n = 0
        /\ req' = Event("frame", sid, payload, None)
        /\ call' = NoCall
        /\ UNCHANGED <<sessions, sid_to_session, connected, db_sessions, attendance,
                       desk, detect, students, main_known_students, called>>
        /\ IF id = None
           THEN reply(Error(sid, "session_not_found"))
           ELSE IF payload = "not_object"
           THEN reply(Error(sid, "payload_not_object"))
           ELSE IF payload = "no_image"
           THEN reply(Error(sid, "image_missing"))
           ELSE IF ~DetectionEnabled(sessions, id)
           THEN reply([event |-> "detection_skipped", sid |-> sid, session_id |-> id])
           ELSE IF payload = "bad_base64"
           THEN reply(Error(sid, "decode_failed"))
           ELSE IF payload = "not_image"
           THEN reply(Error(sid, "image_none"))
           ELSE IF detection = "raises"
           THEN reply(Error(sid, "detection_failed"))
           ELSE IF sessions[id].db_session_id = None
           THEN reply(DetectionResult(sid, id, None, n, <<>>))
           ELSE /\ out' = <<>>
                /\ frames' = [frames EXCEPT ![sid] =
                                 [IdleFrame EXCEPT !.pc = "marking", !.session = id,
                                     !.db_session_id = sessions[id].db_session_id]]

\* a marking loop that a raising store call would abort, the frame ending without
\* its detection_result
frame_mark_aborting(sid, student_id, fail) ==
    LET f == frames[sid]
        r == mark_attendance_socketIO(attendance, f.db_session_id, student_id, fail)
    IN  /\ f.pc = "marking"
        /\ f.n < MaxFaces
        /\ req' = Event("frame_mark", sid, "", student_id)
        /\ UNCHANGED <<sessions, sid_to_session, connected, db_sessions, desk, detect,
                       students, main_known_students>>
        /\ called' = IF student_id = None THEN called
                     ELSE called \cup {<<f.db_session_id, student_id>>}
        /\ IF student_id = None
           THEN /\ fail = "none"
                /\ out' = <<>>
                /\ call' = NoCall
                /\ frames' = [frames EXCEPT ![sid].n = f.n + 1]
                /\ UNCHANGED attendance
           ELSE IF fail = "raised"
           THEN /\ out' = <<>>
                /\ call' = MarkCall(Socket(sid), f.db_session_id, student_id, FALSE, fail)
                /\ frames' = [frames EXCEPT ![sid] = IdleFrame]
                /\ UNCHANGED attendance
           ELSE /\ attendance' = r.att
                /\ call' = MarkCall(Socket(sid), f.db_session_id, student_id, r.result, fail)
                /\ out' = <<[event |-> "attendance_marked", sid |-> sid,
                             session_id |-> f.session,
                             db_session_id |-> f.db_session_id,
                             student_id |-> student_id, marked |-> r.result,
                             message |-> r.message]>>
                /\ frames' = [frames EXCEPT ![sid].n = f.n + 1,
                                 ![sid].records = Append(f.records,
                                     [student_id |-> student_id, marked |-> r.result,
                                      message |-> r.message]),
                                 ![sid].emitted = Append(f.emitted, out'[1])]

\* one iteration of handle_frame's loop, for a face with this student_id (None: a face
\* without student_id).
\* fail: "none", "caught" (raised inside mark_attendance_socketIO's try),
\*       "raised" (mark_attendance_socketIO itself raised)
frame_mark(sid, student_id, fail) ==
    LET f == frames[sid]
        r == mark_attendance_socketIO(attendance, f.db_session_id, student_id, fail)
    IN  /\ f.pc = "marking"
        /\ f.n < MaxFaces
        /\ req' = Event("frame_mark", sid, "", student_id)
        /\ UNCHANGED <<sessions, sid_to_session, connected, db_sessions, desk, detect,
                       students, main_known_students>>
        /\ called' = IF student_id = None THEN called
                     ELSE called \cup {<<f.db_session_id, student_id>>}
        /\ IF student_id = None
           THEN /\ fail = "none"
                /\ out' = <<>>
                /\ call' = NoCall
                /\ frames' = [frames EXCEPT ![sid].n = f.n + 1]
                /\ UNCHANGED attendance
           ELSE IF fail = "raised"
           THEN /\ out' = <<>>
                /\ call' = MarkCall(Socket(sid), f.db_session_id, student_id, FALSE, fail)
                /\ frames' = [frames EXCEPT ![sid].n = f.n + 1,
                                 ![sid].records = Append(f.records,
                                     [student_id |-> student_id, marked |-> FALSE,
                                      message |-> "db_error"])]
                /\ UNCHANGED attendance
           ELSE /\ attendance' = r.att
                /\ call' = MarkCall(Socket(sid), f.db_session_id, student_id, r.result, fail)
                /\ out' = <<[event |-> "attendance_marked", sid |-> sid,
                             session_id |-> f.session,
                             db_session_id |-> f.db_session_id,
                             student_id |-> student_id, marked |-> r.result,
                             message |-> r.message]>>
                /\ frames' = [frames EXCEPT ![sid].n = f.n + 1,
                                 ![sid].records = Append(f.records,
                                     [student_id |-> student_id, marked |-> r.result,
                                      message |-> r.message]),
                                 ![sid].emitted = Append(f.emitted, out'[1])]

\* the end of handle_frame: the detection_result
frame_result(sid) ==
    LET f == frames[sid]
    IN  /\ f.pc = "marking"
        /\ req' = Event("frame_result", sid, "", None)
        /\ out' = <<DetectionResult(sid, f.session, f.db_session_id, f.n, f.records)>>
        /\ frames' = [frames EXCEPT ![sid] = IdleFrame]
        /\ call' = NoCall
        /\ UNCHANGED <<sessions, sid_to_session, connected, db_sessions, attendance,
                       desk, detect, students, main_known_students, called>>

\* POST /api/attendance/mark
\* fail: "none", "caught" (raised inside mark_attendance's try),
\*       "raised" (mark_attendance itself raised: sqlite3.connect is outside the try)
api_mark_attendance(s, i, fail) ==
    LET r == mark_attendance(attendance, s, i, fail)
    IN  /\ req' = Event("api_mark", None, "", i)
        /\ UNCHANGED <<sessions, sid_to_session, connected, db_sessions, frames, desk,
                       detect, students, main_known_students>>
        /\ called' = IF s = None \/ i = None THEN called ELSE called \cup {<<s, i>>}
        /\ IF s = None \/ i = None
           THEN /\ fail = "none"
                /\ out' = <<[event |-> "http", status |-> 400, detail |-> "missing_field"]>>
                /\ call' = NoCall
                /\ UNCHANGED attendance
           ELSE IF fail = "raised"
           THEN /\ out' = <<[event |-> "http", status |-> 500, detail |-> "error"]>>
                /\ call' = MarkCall(Rest, s, i, FALSE, fail)
                /\ UNCHANGED attendance
           ELSE /\ attendance' = r.att
                /\ call' = MarkCall(Rest, s, i, r.result, fail)
                /\ out' = IF r.result
                          THEN <<[event |-> "http", status |-> 200, detail |-> "marked"]>>
                          ELSE <<[event |-> "http", status |-> 400,
                                  detail |-> "already_marked"]>>

\* the student ids of S in ascending order: the rows of a SELECT in rowid order
RECURSIVE Ascending(_)
Ascending(S) ==
    IF S = {} THEN <<>>
    ELSE LET least == CHOOSE x \in S : \A y \in S : x <= y
         IN  <<least>> \o Ascending(S \ {least})

\* A row of table students is "encoding" (the row holds an encoding), "null" (its
\* encoding is NULL) or "removed" (the row was deleted: AUTOINCREMENT gives its id to
\* no later row).
\* A row gets its encoding when it is inserted and no statement updates it: the
\* encoding of student i is written i.
Encoding(i) == i

\* add_student(..., encoding): the new table and the returned id (None on failure)
\* encoding: None, or the encoding derived from the photo
add_student(table, encoding, fail) ==
    IF fail
    THEN [students |-> table, id |-> None]
    ELSE [students |-> Append(table, IF encoding = None THEN "null" ELSE "encoding"),
          id |-> Len(table) + 1]

\* `SELECT ... FROM students WHERE id = ?` finds a row
HasStudent(table, student_id) ==
    student_id \in DOMAIN table /\ table[student_id] # "removed"

\* remove_student(student_id): the attendance rows of the student and the student's row
\* are deleted in one transaction; deleted is the first component of what it returns
remove_student(table, att, student_id, fail) ==
    IF ~HasStudent(table, student_id) \/ fail
    THEN [students |-> table, att |-> att, deleted |-> FALSE]
    ELSE [students |-> [table EXCEPT ![student_id] = "removed"],
          att |-> [p \in Pairs |-> IF p[2] = student_id THEN 0 ELSE att[p]],
          deleted |-> TRUE]

\* a SELECT without its WHERE clause
get_student_encodings_unfiltered(table) ==
    LET ids == Ascending({i \in DOMAIN table : table[i] # "removed"})
    IN  [encodings |-> [k \in DOMAIN ids |-> Encoding(ids[k])], students_info |-> ids]

\* get_student_encodings: the rows WHERE encoding IS NOT NULL, in rowid order, as the
\* two parallel lists
get_student_encodings(table) ==
    LET ids == Ascending({i \in DOMAIN table : table[i] = "encoding"})
    IN  [encodings |-> [k \in DOMAIN ids |-> Encoding(ids[k])], students_info |-> ids]

\* a refresh that stores the first component only
load_encodings_first_only(detector, table) ==
    [detector EXCEPT !.known_encodings = get_student_encodings(table).encodings]

\* load_encodings_from_database: `self.known_encodings, self.known_students =
\* database.get_student_encodings()`, on the record that holds the detector's gallery
load_encodings_from_database(detector, table) ==
    LET r == get_student_encodings(table)
    IN  [detector EXCEPT !.known_encodings = r.encodings,
                         !.known_students = r.students_info]

\* get_session_stats(session_id)['present']: SELECT COUNT(*) FROM attendance WHERE
\* session_id = ?
RECURSIVE CountRows(_, _, _)
CountRows(att, s, S) ==
    IF S = {} THEN 0
    ELSE LET i == CHOOSE x \in S : TRUE
         IN  att[<<s, i>>] + CountRows(att, s, S \ {i})

\* a COUNT(*) without its WHERE clause
RECURSIVE present_count_everywhere(_, _)
present_count_everywhere(att, s) ==
    IF s = None THEN 0
    ELSE CountRows(att, s, Students) + present_count_everywhere(att, s - 1)

present_count(att, s) == CountRows(att, s, Students)

\* a statistic whose total counts the students of the gallery only
get_session_stats_of_gallery(table, att, s) ==
    LET total_students == Cardinality({i \in DOMAIN table : table[i] = "encoding"})
    IN  [total |-> total_students,
         present |-> present_count(att, s),
         absent |-> total_students - present_count(att, s),
         percentage |-> IF total_students > 0
                        THEN [num |-> present_count(att, s) * 100, den |-> total_students]
                        ELSE [num |-> 0, den |-> 1]]

\* get_session_stats(session_id).  The percentage is the quotient num / den; the
\* rounding of the floating-point division is not modelled.
get_session_stats(table, att, s) ==
    LET total_students == Cardinality({i \in DOMAIN table : table[i] # "removed"})
    IN  [total |-> total_students,
         present |-> present_count(att, s),
         absent |-> total_students - present_count(att, s),
         percentage |-> IF total_students > 0
                        THEN [num |-> present_count(att, s) * 100, den |-> total_students]
                        ELSE [num |-> 0, den |-> 1]]

\* round(percentage, 2), in hundredths
round2(percentage) == (200 * percentage.num + percentage.den) \div (2 * percentage.den)

Detect == [kind |-> "detect", sid |-> None]

Http(status, detail) == [event |-> "http", status |-> status, detail |-> detail]

\* the elements of a sequence
Range(seq) == {seq[k] : k \in DOMAIN seq}

\* a test that finds every gallery non-empty
SomeEncodings(known_students) == FALSE

\* `if len(detector.known_encodings) == 0`
NoEncodings(known_students) == Len(known_students) = 0

\* the REST server after a detect request
RequestDone == [NoRequest EXCEPT !.known_encodings = detect.known_encodings,
                                !.known_students = detect.known_students]

\* POST /api/attendance/detect, from the start to the loop over the detected faces.
\* s: data.session_id (None: missing)
\* payload: "no_image" (image_base64 missing or empty), "bad_base64" (the decode
\*          raises), "not_image" (imdecode returns None), "image"
detect_and_mark_attendance(s, payload) ==
    LET \* the store is read once the fields are there
        loaded == s # None /\ payload # "no_image"
        detector == IF loaded THEN load_encodings_from_database(detect, students)
                    ELSE detect
        known_students == detector.known_students
        reply(e) ==
            /\ out' = <<e>>
            /\ detect' = detector
    IN  /\ detect.pc = "idle"
        /\ req' = Event("detect", None, payload, None)
        /\ call' = NoCall
        /\ UNCHANGED <<sessions, sid_to_session, connected, db_sessions, attendance,
                       frames, desk, students, main_known_students, called>>
        /\ IF ~loaded
           THEN reply(Http(400, "missing_field"))
           ELSE IF NoEncodings(detector.known_encodings)
           THEN reply(Http(400, "no_encodings"))
           ELSE IF payload = "bad_base64"
           THEN reply(Http(400, "decode_failed"))
           ELSE IF payload = "not_image"
           \* detect_faces_in_frame(None): cv2.resize raises, nothing catches it
           THEN reply(Http(500, "error"))
           ELSE /\ out' = <<>>
                /\ detect' = [pc |-> "marking", session_id |-> s,
                              known_encodings |-> detector.known_encodings,
                              known_students |-> known_students, students |-> <<>>,
                              before |-> {i \in Students : HasRecord(attendance, s, i)}]

\* one iteration of the loop over detected_faces, for a face matched to student_id.
\* fail: "none", "caught" (raised inside mark_attendance's try),
\*       "raised" (mark_attendance itself raised: the request ends there)
detect_mark(student_id, fail) ==
    LET r == mark_attendance(attendance, detect.session_id, student_id, fail)
    IN  /\ detect.pc = "marking"
        /\ Len(detect.students) < MaxFaces
        /\ student_id \in Range(detect.known_students)
        /\ req' = Event("detect_mark", None, "", student_id)
        /\ called' = called \cup {<<detect.session_id, student_id>>}
        /\ UNCHANGED <<sessions, sid_to_session, connected, db_sessions, frames, desk,
                       students, main_known_students>>
        /\ IF fail = "raised"
           THEN /\ out' = <<Http(500, "error")>>
                /\ call' = MarkCall(Detect, detect.session_id, student_id, FALSE, fail)
                /\ detect' = RequestDone
                /\ UNCHANGED attendance
           ELSE /\ attendance' = r.att
                /\ call' = MarkCall(Detect, detect.session_id, student_id, r.result, fail)
                /\ out' = <<>>
                /\ detect' = [detect EXCEPT !.students = Append(@,
                                  [student_id |-> student_id, marked |-> r.result,
                                   already_present |-> ~r.result])]

\* the end of the request: the statistics are read and the reply is sent.
\* fail: get_session_stats raised
detect_result(fail) ==
    /\ detect.pc = "marking"
    /\ req' = Event("detect_result", None, "", None)
    /\ out' = IF fail
              THEN <<Http(500, "error")>>
              ELSE <<[event |-> "http", status |-> 200, detail |-> "detected",
                      session_id |-> detect.session_id,
                      detected_count |-> Len(detect.students),
                      students |-> detect.students,
                      present |-> present_count(attendance, detect.session_id)]>>
    /\ detect' = RequestDone
    /\ call' = NoCall
    /\ UNCHANGED <<sessions, sid_to_session, connected, db_sessions, attendance,
                   frames, desk, students, main_known_students, called>>

\* ------------------------------------- the REST server: students and sessions
\* The REST server's handlers are coroutines without an await: the event loop runs
\* each of them to its end before it starts the next one.

\* The photo of an enrollment request:
\* "none" (no photo_base64), "undecodable" (the decode raises, or imdecode returns
\* None and cv2.imwrite raises), "no_face", "many_faces", "one_face", "no_encoding"
\* (one face located, face_encodings returns no encoding)
Photos == {"none", "undecodable", "no_face", "many_faces", "one_face", "no_encoding"}

\* a check that only rejects the photos whose decode raises
PhotoRejectedOnDecode(photo) == photo = "undecodable"

\* the photos for which the try block of create_student raises: every exception,
\* the two HTTPExceptions of the face count included, is caught and raised again as
\* HTTP 400
PhotoRejected(photo) == photo \in {"undecodable", "no_face", "many_faces"}

\* POST /api/students
\* fields: "ok", "missing" (first_name, last_name or email is empty), "email_known"
\*         (a student with this email exists)
\* fail: add_student returned None
create_student(fields, photo, fail) ==
    LET r == add_student(students, IF photo = "one_face" THEN Encoding(Len(students) + 1)
                                   ELSE None, fail)
    IN  /\ detect.pc = "idle"
        /\ fields = "email_known" => \E i \in DOMAIN students : students[i] # "removed"
        /\ req' = Event("create_student", None, photo, None)
        /\ call' = NoCall
        /\ UNCHANGED <<sessions, sid_to_session, connected, db_sessions, attendance,
                       frames, desk, main_known_students, called>>
        /\ IF fields # "ok"
           THEN /\ out' = <<Http(400, fields)>>
                /\ UNCHANGED <<students, detect>>
           ELSE IF PhotoRejected(photo)
           THEN /\ out' = <<Http(400, "photo_error")>>
                /\ UNCHANGED <<students, detect>>
           ELSE IF r.id = None
           THEN /\ out' = <<Http(500, "error")>>
                /\ UNCHANGED <<students, detect>>
           ELSE /\ Len(students) < MaxStudents
                /\ students' = r.students
                /\ detect' = load_encodings_from_database(detect, r.students)
                /\ out' = <<[event |-> "http", status |-> 200, detail |-> "created",
                             student_id |-> r.id, has_encoding |-> photo = "one_face"]>>

\* DELETE /api/students/{student_id}
\* fail: "none", "remove" (the DELETE raised inside remove_student),
\*       "load" (the reload raised and the handler passed over it)
delete_student(student_id, fail) ==
    LET r == remove_student(students, attendance, student_id, fail = "remove")
    IN  /\ detect.pc = "idle"
        /\ req' = Event("delete_student", None, "", student_id)
        /\ call' = NoCall
        /\ UNCHANGED <<sessions, sid_to_session, connected, db_sessions, frames, desk,
                       main_known_students, called>>
        /\ students' = r.students
        /\ attendance' = r.att
        /\ IF ~r.deleted
           THEN /\ fail # "load"
                /\ out' = <<Http(404, "not_found")>>
                /\ UNCHANGED detect
           ELSE /\ out' = <<Http(200, "deleted")>>
                /\ detect' = IF fail = "load" THEN detect
                             ELSE load_encodings_from_database(detect, r.students)

\* POST /api/sessions
\* fields: FALSE when professor_id or subject is missing
\* fail: db.create_session returned None
api_create_session(fields, fail) ==
    LET r == create_session(db_sessions, fail)
        detector == load_encodings_from_database(detect, students)
    IN  /\ detect.pc = "idle"
        /\ req' = Event("create_session", None, "", None)
        /\ call' = NoCall
        /\ UNCHANGED <<sessions, sid_to_session, connected, attendance, frames, desk,
                       students, main_known_students, called>>
        /\ IF ~fields
           THEN /\ ~fail
                /\ out' = <<Http(400, "missing_field")>>
                /\ UNCHANGED <<db_sessions, detect>>
           ELSE IF r.id = None
           THEN /\ out' = <<Http(500, "error")>>
                /\ UNCHANGED <<db_sessions, detect>>
           ELSE /\ Len(db_sessions) < MaxDbSessions
                /\ db_sessions' = r.dbs
                /\ detect' = detector
                /\ out' = <<[event |-> "http", status |-> 200, detail |-> "created",
                             session_id |-> r.id,
                             students_registered |-> Len(detector.known_encodings)]>>

\* PUT /api/sessions/{session_id}/end
\* fail: "none", "caught" (the UPDATE raised inside end_session's try),
\*       "raised" (get_session_stats raised)
api_end_session(session_id, t, fail) ==
    LET stats == get_session_stats(students, attendance, session_id)
    IN  /\ detect.pc = "idle"
        /\ t >= Latest(db_sessions)
        /\ fail = "caught" \/ session_id \notin DOMAIN db_sessions => t = Latest(db_sessions)
        /\ db_sessions' = end_session(db_sessions, session_id, t, fail = "caught")
        /\ req' = Event("end_session", None, "", None)
        /\ call' = NoCall
        /\ out' = IF fail = "raised"
                  THEN <<Http(500, "error")>>
                  ELSE <<[event |-> "http", status |-> 200, detail |-> "ended",
                          session_id |-> session_id,
                          statistics |-> [total_students |-> stats.total,
                                          present |-> stats.present,
                                          absent |-> stats.absent,
                                          attendance_rate |-> round2(stats.percentage)]]>>
        /\ UNCHANGED <<sessions, sid_to_session, connected, attendance, frames, desk,
                       detect, students, main_known_students, called>>

\* ------------------------------------------------------- the desktop loop
\* ------------------------------------------------------------- the matcher
\* Feature vectors have one coordinate, an integer of 0..MaxCoord; distances and the
\* tolerance are in the same unit.
Abs(x) == IF x < 0 THEN -x ELSE x

\* face_recognition.face_distance(known_encodings, face_encoding): the Euclidean
\* distance of face_encoding to each known encoding, in the order of the gallery
face_distance(known_encodings, face_encoding) ==
    [k \in DOMAIN known_encodings |-> Abs(known_encodings[k] - face_encoding)]

\* np.argmin over the indices k..Len(distances), best being the index kept so far
RECURSIVE ArgMinFrom(_, _, _)
ArgMinFrom(distances, k, best) ==
    IF k > Len(distances) THEN best
    ELSE ArgMinFrom(distances, k + 1,
                    IF distances[k] < distances[best] THEN k ELSE best)

\* an argmin that keeps the last of the minima
argmin_last(distances) ==
    CHOOSE k \in DOMAIN distances :
        /\ \A j \in DOMAIN distances : distances[k] <= distances[j]
        /\ \A j \in DOMAIN distances : j > k => distances[j] > distances[k]

\* np.argmin(distances): the index of the first occurrence of the minimum (indices are
\* counted from 1 here, from 0 in the code)
argmin(distances) == ArgMinFrom(distances, 2, 1)

\* a comparison that accepts a distance equal to the tolerance
WithinToleranceInclusive(best_distance, tolerance) == best_distance <= tolerance

\* `if best_distance < self.tolerance`
WithinTolerance(best_distance, tolerance) == best_distance < tolerance

\* a location whose four components are multiplied but stored in the order
\* (left, top, right, bottom)
scaled_as_box(face_location) ==
    <<4 * face_location[4], 4 * face_location[1], 4 * face_location[2],
      4 * face_location[3]>>

\* `top *= 4 ... left *= 4` and `'location': (top, right, bottom, left)`: the region
\* of the face in the frame, from its region in the frame reduced to a quarter
scaled(face_location) ==
    LET top == face_location[1]
        right == face_location[2]
        bottom == face_location[3]
        left == face_location[4]
    IN  <<4 * top, 4 * right, 4 * bottom, 4 * left>>

\* a confidence that grows with the distance
confidence_of_distance(best_distance) == (best_distance * 100) \div Scale

\* `(1 - best_distance) * 100`.  Distances and tolerances are counted in steps of
\* 1 / Scale: the distance 1 is Scale steps, and the confidence is in percent.
confidence(best_distance) == ((Scale - best_distance) * 100) \div Scale

\* one iteration of detect_faces_in_frame's loop: what it appends to detected_faces
match_face(known_encodings, known_students, tolerance, face_encoding, face_location) ==
    LET distances == face_distance(known_encodings, face_encoding)
    IN  IF Len(distances) = 0 THEN <<>>
        ELSE LET best_match_index == argmin(distances)
                 best_distance == distances[best_match_index]
             IN  IF WithinTolerance(best_distance, tolerance)
                 THEN <<[student |-> known_students[best_match_index],
                         location |-> scaled(face_location),
                         distance |-> best_distance,
                         confidence |-> confidence(best_distance)]>>
                 ELSE <<>>

\* detect_faces_in_frame, from the encodings and the locations of the faces found in
\* the reduced frame
RECURSIVE detect_faces_in_frame(_, _, _, _, _)
detect_faces_in_frame(known_encodings, known_students, tolerance, face_encodings, face_locations) ==
    IF face_encodings = <<>> THEN <<>>
    ELSE match_face(known_encodings, known_students, tolerance, Head(face_encodings),
                    Head(face_locations))
         \o detect_faces_in_frame(known_encodings, known_students, tolerance,
                                  Tail(face_encodings), Tail(face_locations))

\* the sequences over S of length at most n
SeqsUpTo(S, n) == UNION {[1..k -> S] : k \in 0..n}

\* the regions face_locations reports: (top, right, bottom, left), in pixels of the
\* reduced frame
FaceLocations ==
    {loc \in (0..MaxPixel) \X (0..MaxPixel) \X (0..MaxPixel) \X (0..MaxPixel) :
        loc[1] < loc[3] /\ loc[4] < loc[2]}

\* A detector with a gallery and a tolerance, and the encodings and the locations of
\* the faces of one frame; the student at index k of the gallery has id k.
InitFrame(known_encodings, tolerance, face_encodings, face_locations) ==
    /\ sessions = <<>>
    /\ sid_to_session = EmptyMap
    /\ connected = {}
    /\ db_sessions = <<>>
    /\ attendance = NoRows
    /\ frames = [s \in Sids |-> IdleFrame]
    /\ desk = DeskOff
    /\ detect = NoRequest
    /\ students = <<>>
    /\ main_known_students = <<>>
    /\ called = {}
    /\ req = [event |-> "frame_read", known_encodings |-> known_encodings,
              known_students |-> [k \in DOMAIN known_encodings |-> k],
              tolerance |-> tolerance, face_encodings |-> face_encodings,
              face_locations |-> face_locations]
    /\ out = <<>>
    /\ call = NoCall

\* every gallery and every frame of the bounds, the faces of the frame side by side
InitMatcher ==
    \E known_encodings \in SeqsUpTo(0..MaxCoord, MaxGallery),
       tolerance \in 1..MaxTolerance,
       face_encodings \in SeqsUpTo(0..MaxCoord, MaxFaces) :
        InitFrame(known_encodings, tolerance, face_encodings,
                  [k \in DOMAIN face_encodings |-> <<0, k, 1, k - 1>>])

\* a gallery of at most one student, and every frame and every location of the bounds
InitLocated ==
    \E known_encodings \in SeqsUpTo(0..MaxCoord, 1),
       tolerance \in 1..MaxTolerance,
       n \in 0..MaxFaces :
        \E face_encodings \in [1..n -> 0..MaxCoord],
           face_locations \in [1..n -> FaceLocations] :
            InitFrame(known_encodings, tolerance, face_encodings, face_locations)

\* the detector is applied to the frame
detect_faces ==
    /\ req.event = "frame_read"
    /\ req' = [req EXCEPT !.event = "detect_faces"]
    /\ out' = detect_faces_in_frame(req.known_encodings, req.known_students,
                                    req.tolerance, req.face_encodings,
                                    req.face_locations)
    /\ UNCHANGED <<sessions, sid_to_session, connected, db_sessions, attendance,
                   frames, desk, detect, students, main_known_students, called, call>>

\* `detection_interval = 30`
detection_interval == 30

\* `if frame_count % detection_interval == 0`
DetectionDue(frame_count) == frame_count % detection_interval = 0

\* an overlay that is refreshed with every frame
OverlayAlwaysDue(frame_count) == TRUE

\* `if frame_count % 5 == 0`: the overlay is drawn again
OverlayDue(frame_count) == frame_count % 5 = 0

\* what an iteration of the loop did to the overlay
Overlay(frame_count) == IF OverlayDue(frame_count) THEN "overlay" ELSE ""

\* a loop that does not consult marked_students
NeverYetMarked(marked_students, student_id) == TRUE

\* `if student_id not in self.marked_students`
NotYetMarked(marked_students, student_id) == student_id \notin marked_students

\* start_attendance_session up to the loop.  opened: cap.isOpened()
start_attendance_session(s, opened) ==
    /\ desk.pc = "off"
    /\ desk' = IF opened
               THEN [DeskOff EXCEPT !.pc = "loop", !.session_id = s]
               ELSE DeskOff
    /\ req' = Event("desk_start", None, "", None)
    /\ out' = <<>>
    /\ call' = NoCall
    /\ UNCHANGED <<sessions, sid_to_session, connected, db_sessions, attendance,
                   frames, detect, students, main_known_students, called>>

\* one iteration of the loop, up to the detection when one is due and to its end
\* otherwise.  success: cap.read() returned a frame; quit: the 'q' key was pressed
\* The payload of the step tells whether it refreshed the overlay.
desk_frame(success, quit) ==
    /\ desk.pc = "loop"
    /\ IF ~success
       THEN /\ ~quit
            /\ desk' = [desk EXCEPT !.pc = "closing"]
       ELSE /\ desk.frame_count < MaxFrameCount
            /\ IF DetectionDue(desk.frame_count + 1)
               THEN /\ ~quit
                    /\ desk' = [desk EXCEPT !.frame_count = @ + 1, !.pc = "faces",
                                            !.n = 0]
               ELSE desk' = [desk EXCEPT !.frame_count = @ + 1,
                                         !.pc = IF quit THEN "closing" ELSE "loop"]
    /\ req' = Event("desk_frame", None,
                    IF success /\ ~DetectionDue(desk.frame_count + 1)
                    THEN Overlay(desk.frame_count + 1) ELSE "", None)
    /\ out' = <<>>
    /\ call' = NoCall
    /\ UNCHANGED <<sessions, sid_to_session, connected, db_sessions, attendance,
                   frames, detect, students, main_known_students, called>>

\* one iteration of the loop over detected_faces, for a face matched to student_id.
\* fail: "none", "caught", "raised" (the exception leaves start_attendance_session)
desk_mark(student_id, fail) ==
    LET r == mark_attendance(attendance, desk.session_id, student_id, fail)
    IN  /\ desk.pc = "faces"
        /\ desk.n < MaxFaces
        /\ req' = Event("desk_mark", None, "", student_id)
        /\ out' = <<>>
        /\ UNCHANGED <<sessions, sid_to_session, connected, db_sessions, frames, detect,
                       students, main_known_students>>
        /\ IF ~NotYetMarked(desk.marked_students, student_id)
           THEN /\ fail = "none"
                /\ desk' = [desk EXCEPT !.n = @ + 1]
                /\ call' = NoCall
                /\ UNCHANGED <<attendance, called>>
           ELSE /\ called' = called \cup {<<desk.session_id, student_id>>}
                /\ IF fail = "raised"
                   THEN /\ desk' = [DeskOff EXCEPT
                                       !.marked_students = desk.marked_students]
                        /\ call' = MarkCall(Desk, desk.session_id, student_id, FALSE, fail)
                        /\ UNCHANGED attendance
                   ELSE /\ attendance' = r.att
                        /\ call' = MarkCall(Desk, desk.session_id, student_id,
                                            r.result, fail)
                        /\ desk' = [desk EXCEPT !.n = @ + 1,
                                       !.marked_students =
                                           IF r.result THEN @ \cup {student_id} ELSE @]

\* the rest of an iteration in which the detection was due
desk_show(quit) ==
    /\ desk.pc = "faces"
    /\ desk' = [desk EXCEPT !.pc = IF quit THEN "closing" ELSE "loop", !.n = 0]
    /\ req' = Event("desk_show", None, Overlay(desk.frame_count), None)
    /\ out' = <<>>
    /\ call' = NoCall
    /\ UNCHANGED <<sessions, sid_to_session, connected, db_sessions, attendance,
                   frames, detect, students, main_known_students, called>>

\* after the loop: the statistics are read and the session is ended
desk_end(t, fail) ==
    /\ desk.pc = "closing"
    /\ t >= Latest(db_sessions)
    /\ fail \/ desk.session_id \notin DOMAIN db_sessions => t = Latest(db_sessions)
    /\ db_sessions' = end_session(db_sessions, desk.session_id, t, fail)
    /\ desk' = [DeskOff EXCEPT !.marked_students = desk.marked_students]
    /\ req' = Event("desk_end", None, "", None)
    /\ out' = <<>>
    /\ call' = NoCall
    /\ UNCHANGED <<sessions, sid_to_session, connected, attendance, frames, detect,
                   students, main_known_students, called>>

\* --------------------------------------------------------- specifications
Payloads == {"not_object", "no_image", "bad_base64", "not_image", "image"}

Connect == \E sid \in Sids : handle_connect(sid)

Disconnect == \E sid \in Sids : handle_disconnect(sid)

StartDetection == \E sid \in Sids, fail \in BOOLEAN : handle_start_detection(sid, fail)

StopDetection ==
    \E sid \in Sids, t \in Times, fail \in BOOLEAN : handle_stop_detection(sid, t, fail)

Frame ==
    \E sid \in Sids, payload \in Payloads, detection \in {"raises", "returns"},
       n \in 0..MaxFaces : handle_frame(sid, payload, detection, n)

FrameMark ==
    \E sid \in Sids, i \in Students \cup {None}, fail \in {"none", "caught", "raised"} :
        frame_mark(sid, i, fail)

FrameResult == \E sid \in Sids : frame_result(sid)

ApiMark ==
    \E s \in DbIds \cup {None}, i \in Students \cup {None},
       fail \in {"none", "caught", "raised"} : api_mark_attendance(s, i, fail)

\* The session registry: every session event, and frames that show no face
NextRegistry ==
    Connect \/ Disconnect \/ StartDetection \/ StopDetection \/ Frame \/ FrameResult

SpecRegistry == Init /\ [][NextRegistry]_vars

\* One connection id for which a session is opened more than once
NextReopen ==
    \/ handle_connect(1)
    \/ handle_connect_again(1)
    \/ \E fail \in BOOLEAN : handle_start_detection(1, fail)
    \/ \E t \in Times, fail \in BOOLEAN : handle_stop_detection(1, t, fail)
    \/ handle_disconnect(1)

SpecReopen == Init /\ [][NextReopen]_vars

\* One streaming client, from its connect to its disconnect
NextClient ==
    \/ handle_connect(1)
    \/ handle_disconnect(1)
    \/ \E fail \in BOOLEAN : handle_start_detection(1, fail)
    \/ \E t \in Times, fail \in BOOLEAN : handle_stop_detection(1, t, fail)
    \/ \E payload \in Payloads, detection \in {"raises", "returns"}, n \in 0..MaxFaces :
          handle_frame(1, payload, detection, n)
    \/ \E i \in Students \cup {None}, fail \in {"none", "caught", "raised"} :
          frame_mark(1, i, fail)
    \/ frame_result(1)

SpecClient == Init /\ [][NextClient]_vars

\* handle_frame is one sequential function: once its loop over the faces of a frame is
\* entered, the handler goes on to its end, the detection_result
FairSpecClient == SpecClient /\ WF_vars(frame_result(1))

\* The ledger under its callers: a streaming client and the REST mark endpoint
NextLedger ==
    \/ handle_connect(1)
    \/ \E fail \in BOOLEAN : handle_start_detection(1, fail)
    \/ \E payload \in Payloads, detection \in {"raises", "returns"}, n \in 0..MaxFaces :
          handle_frame(1, payload, detection, n)
    \/ \E i \in Students \cup {None}, fail \in {"none", "caught", "raised"} :
          frame_mark(1, i, fail)
    \/ frame_result(1)
    \/ ApiMark

SpecLedger == Init /\ [][NextLedger]_vars

DeskStart == \E s \in DbIds, opened \in BOOLEAN : start_attendance_session(s, opened)

DeskFrame == \E success \in BOOLEAN, quit \in BOOLEAN : desk_frame(success, quit)

DeskMark ==
    \E i \in Students, fail \in {"none", "caught", "raised"} : desk_mark(i, fail)

DeskShow == \E quit \in BOOLEAN : desk_show(quit)

DeskEnd == \E t \in Times, fail \in BOOLEAN : desk_end(t, fail)

DesktopLoop == DeskStart \/ DeskFrame \/ DeskMark \/ DeskShow \/ DeskEnd

\* The desktop loop alone, on ledger session 1
NextLoop ==
    \/ \E opened \in BOOLEAN : start_attendance_session(1, opened)
    \/ DeskFrame
    \/ \E i \in Students : desk_mark(i, "none")
    \/ DeskShow
    \/ \E t \in Times : desk_end(t, FALSE)

SpecLoop == Init /\ [][NextLoop]_vars

\* The desktop loop on ledger session 1, with the REST server marking for the same
\* session and deleting students meanwhile (one store, two programs)
NextPresence ==
    \/ \E opened \in BOOLEAN : start_attendance_session(1, opened)
    \/ DeskFrame
    \/ \E i \in Students, fail \in {"none", "caught"} : desk_mark(i, fail)
    \/ DeskShow
    \/ \E t \in Times : desk_end(t, FALSE)
    \/ \E i \in Students : api_mark_attendance(1, i, "none")
    \/ \E i \in Students : delete_student(i, "none")

SpecPresence == InitStore([i \in Students |-> "encoding"]) /\ [][NextPresence]_vars

\* A desktop session on ledger session 1, which the REST server created
NextDeskSession ==
    \/ api_create_session(TRUE, FALSE)
    \/ 1 \in DOMAIN db_sessions /\ \E opened \in BOOLEAN : start_attendance_session(1, opened)
    \/ DeskFrame
    \/ \E i \in Students : desk_mark(i, "none")
    \/ DeskShow
    \/ \E t \in Times : desk_end(t, FALSE)

\* start_attendance_session is one sequential function: once called it runs on, and
\* its loop ends when the camera stops delivering frames or the key is pressed.
\* Nothing makes anybody start a session.
FairSpecDeskSession ==
    /\ Init /\ [][NextDeskSession]_vars
    /\ WF_vars(DeskFrame) /\ WF_vars(DeskShow)
    /\ WF_vars(\E t \in Times : desk_end(t, FALSE))

\* The desktop loop and the REST mark endpoint on one ledger
NextDesktop == DesktopLoop \/ ApiMark

SpecDesktop == Init /\ [][NextDesktop]_vars

\* One streaming client, whose store calls succeed, and the desktop loop on another
\* ledger session
NextSampling ==
    \/ handle_connect(1)
    \/ handle_start_detection(1, FALSE)
    \/ \E n \in 0..MaxFaces : handle_frame(1, "image", "returns", n)
    \/ \E i \in Students \cup {None} : frame_mark(1, i, "none")
    \/ frame_result(1)
    \/ \E opened \in BOOLEAN : start_attendance_session(2, opened)
    \/ DeskFrame \/ DeskMark \/ DeskShow \/ DeskEnd

SpecSampling == Init /\ [][NextSampling]_vars

DetectPayloads == {"no_image", "bad_base64", "not_image", "image"}

DetectRequest ==
    \E s \in DbIds \cup {None}, payload \in DetectPayloads :
        detect_and_mark_attendance(s, payload)

DetectMark ==
    \E i \in Students, fail \in {"none", "caught", "raised"} : detect_mark(i, fail)

DetectResult == \E fail \in BOOLEAN : detect_result(fail)

\* The REST server: the one-shot detect request and the direct mark request
NextRestApi == DetectRequest \/ DetectMark \/ DetectResult \/ ApiMark

SpecRestApi == InitEnrolled /\ [][NextRestApi]_vars

\* The three callers of the ledger's mark on one ledger session: a streaming client,
\* the one-shot detect request and the direct mark request
NextMarkPaths ==
    \/ handle_connect(1)
    \/ handle_start_detection(1, FALSE)
    \/ handle_frame(1, "image", "returns", 0)
    \/ \E i \in Students, fail \in {"none", "caught"} : frame_mark(1, i, fail)
    \/ frame_result(1)
    \/ detect_and_mark_attendance(1, "image")
    \/ \E i \in Students, fail \in {"none", "caught"} : detect_mark(i, fail)
    \/ detect_result(FALSE)
    \/ \E i \in Students, fail \in {"none", "caught"} : api_mark_attendance(1, i, fail)

SpecMarkPaths == InitStore([i \in Students |-> "encoding"]) /\ [][NextMarkPaths]_vars

\* The matcher on every gallery, tolerance and frame of the bounds
NextMatcher == detect_faces

SpecMatcher == InitMatcher /\ [][NextMatcher]_vars

\* The matcher on the located faces of a frame
SpecLocated == InitLocated /\ [][NextMatcher]_vars

\* a detector whose gallery is empty, before a frame
InitEmptyGallery == InitMatcher /\ Len(req.known_encodings) = 0

CreateStudent ==
    \E fields \in {"ok", "missing", "email_known"}, photo \in Photos, fail \in BOOLEAN :
        create_student(fields, photo, fail)

DeleteStudent ==
    \E i \in Students, fail \in {"none", "remove", "load"} : delete_student(i, fail)

ApiCreateSession == \E fields \in BOOLEAN, fail \in BOOLEAN : api_create_session(fields, fail)

\* The frame pipelines against their gallery: the matcher, and the REST server, whose
\* detect request reloads the gallery from a table that deletions change
NextGallery == detect_faces \/ NextRestApi \/ DeleteStudent

SpecGallery == (InitEnrolled \/ InitEmptyGallery) /\ [][NextGallery]_vars

ApiEndSession ==
    \E s \in DbIds, t \in Times, fail \in {"none", "caught", "raised"} :
        api_end_session(s, t, fail)

\* The REST server's statistics of a session, on a store whose students and attendance
\* records its requests add and delete
NextStats ==
    \/ \E i \in Students : delete_student(i, "none")
    \/ api_create_session(TRUE, FALSE)
    \/ \E s \in DbIds, i \in Students : api_mark_attendance(s, i, "none")
    \/ ApiEndSession

SpecStats == InitEnrolled /\ [][NextStats]_vars

\* The galleries and what refreshes them: the REST server's enrollment, deletion and
\* session creation, and a streaming client that starts detection
NextEnrollment ==
    \/ CreateStudent \/ DeleteStudent \/ ApiCreateSession
    \/ handle_connect(1)
    \/ \E fail \in BOOLEAN : handle_start_detection(1, fail)

SpecEnrollment == Init /\ [][NextEnrollment]_vars

\* The whole system
Next ==
    \/ Connect \/ Disconnect \/ StartDetection \/ StopDetection
    \/ Frame \/ FrameMark \/ FrameResult
    \/ ApiMark
    \/ DetectRequest \/ DetectMark \/ DetectResult
    \/ DesktopLoop

Spec == Init /\ [][Next]_vars

\* ----------------------------------------------------------------- claims
\* the pair a mark call was made for
PairOf(c) == <<c.session_id, c.student_id>>

\* C1 as stated: for every ledger session s and identity i, at most one attendance
\* record exists for (s, i) after any sequence of mark calls, the first call for the
\* pair reports newly marked = true and every later call reports false.
C1_FirstCallReportsNew ==
    /\ [](\A p \in Pairs : attendance[p] <= 1)
    /\ [][call' # NoCall => (call'.result <=> call'.first)]_vars

\* C1 amended: at most one attendance record exists for (s, i) after any sequence of
\* mark calls; a call reports newly marked = true exactly when it inserts the record,
\* which is when no record exists yet and the store does not fail.  A call that hits
\* a store error reports false and inserts nothing, so the first call reports true
\* only if it does not fail; every call made once the record exists reports false.
C1_MarkReportsInsert ==
    /\ [](\A p \in Pairs : attendance[p] <= 1)
    /\ [][call' # NoCall =>
            LET p == PairOf(call')
            IN  /\ call'.result <=> (attendance[p] = 0 /\ call'.fail = "none")
                /\ attendance'[p] = attendance[p] + (IF call'.result THEN 1 ELSE 0)
                /\ \A q \in Pairs \ {p} : attendance'[q] = attendance[q]
                /\ call'.first /\ call'.fail = "none" => call'.result
                /\ attendance[p] > 0 => ~call'.result]_vars

\* a later call for a pair that has its record was made without a store failure and
\* reported false
C1_Witness ==
    /\ call # NoCall
    /\ ~call.first /\ call.fail = "none" /\ ~call.result
    /\ attendance[PairOf(call)] = 1

\* two mark calls in a row for one pair, by different callers, the first of them the
\* first call ever made for the pair
TwoCallers ==
    /\ call # NoCall /\ call.first
    /\ call' # NoCall
    /\ PairOf(call') = PairOf(call)
    /\ call'.caller # call.caller

\* C2 as stated: when two different callers (a socket connection and the direct mark
\* request) mark the same (ledger session, identity) pair with their steps interleaved
\* in any order, exactly one attendance record results and exactly one of the two
\* calls reports a new record.
C2_ExactlyOneOfTwo ==
    [][TwoCallers =>
          /\ attendance'[PairOf(call)] = 1
          /\ call.result # call'.result]_vars

\* C2 amended: when two different callers mark the same pair with their steps
\* interleaved in any order, at most one attendance record results and at most one of
\* the two calls reports a new record; a record results, and exactly one call reports
\* it as new, exactly when at least one of the two calls completes without a store
\* error.  No in-memory set is involved: the callers share nothing but the table.
C2_AtMostOneOfTwo ==
    [][TwoCallers =>
          LET p == PairOf(call)
          IN  /\ attendance'[p] <= 1
              /\ ~(call.result /\ call'.result)
              /\ (call.result \/ call'.result) <=> attendance'[p] = 1
              /\ (call.fail = "none" \/ call'.fail = "none") <=> attendance'[p] = 1]_vars

\* a frame of a socket connection inserted the record of an identity, and before the
\* frame ended the direct mark request marked the same pair and got false
C2_Witness ==
    \E sid \in Sids :
        /\ frames[sid].pc = "marking"
        /\ call.caller = Rest /\ call.fail = "none" /\ ~call.result
        /\ call.session_id = frames[sid].db_session_id
        /\ \E k \in DOMAIN frames[sid].records :
               /\ frames[sid].records[k].student_id = call.student_id
               /\ frames[sid].records[k].marked

\* the step handles a frame event of a known connection whose detection flag is false
FrameWhileDisabled ==
    LET id == get_by_sid(sid_to_session, req'.sid)
    IN  /\ req'.event = "frame"
        /\ id # None
        /\ ~sessions[id].detection

Skipped(sid) ==
    [event |-> "detection_skipped", sid |-> sid, session_id |-> get_by_sid(sid_to_session, sid)]

\* no decode, no detection, no mark call, and the session state and the ledger are as
\* they were
NothingProcessed ==
    /\ frames' = frames
    /\ call' = NoCall
    /\ UNCHANGED <<sessions, sid_to_session, connected, db_sessions, attendance>>

\* C3 as stated: a frame event received on a known connection whose detection flag is
\* false is only acknowledged with detection_skipped: no decode, no detection, no mark
\* call, no attendance_marked or detection_result, session state and ledger unchanged.
C3_SkippedOnly ==
    [][FrameWhileDisabled => out' = <<Skipped(req'.sid)>> /\ NothingProcessed]_vars

\* C3 amended: a frame event received on a known connection whose detection flag is
\* false triggers no decode, no detection, no mark call, no attendance_marked or
\* detection_result, and leaves the session state and the ledger unchanged.  It is
\* acknowledged with detection_skipped when its payload is an object that carries an
\* image, and answered with an error when the payload is not an object or carries no
\* image: the payload is checked before the detection flag.
C3_SkippedOrRejected ==
    [][FrameWhileDisabled =>
          /\ NothingProcessed
          /\ out' = IF req'.payload = "not_object"
                    THEN <<Error(req'.sid, "payload_not_object")>>
                    ELSE IF req'.payload = "no_image"
                    THEN <<Error(req'.sid, "image_missing")>>
                    ELSE <<Skipped(req'.sid)>>]_vars

\* a frame with an image was skipped on a connection that had started and then stopped
\* detection
C3_Witness ==
    LET id == get_by_sid(sid_to_session, req.sid)
    IN  /\ req.event = "frame" /\ req.payload = "image"
        /\ id # None
        /\ ~sessions[id].detection /\ sessions[id].db_session_id # None
        /\ out = <<Skipped(req.sid)>>

\* The desktop loop makes no mark call for an identity that is in marked_students, and
\* an identity enters marked_students only through a mark call of the loop that
\* reported a new record (the set is otherwise only emptied, when a session starts).
DesktopMarksOnce ==
    /\ req'.event = "desk_mark" /\ req'.student_id \in desk.marked_students
           => call' = NoCall
    /\ desk'.marked_students # desk.marked_students
           => \/ req'.event = "desk_start" /\ desk'.marked_students = {}
              \/ /\ call' # NoCall /\ call'.caller = Desk /\ call'.result
                 /\ desk'.marked_students =
                        desk.marked_students \cup {call'.student_id}

\* the step is an iteration of handle_frame's loop for a face whose identity already
\* has its record in the connection's ledger session, and not from this frame.  Under
\* SpecSampling the connection is the only caller that marks in its ledger session,
\* so the record is there because an earlier frame of the connection newly marked the
\* identity.
StreamSeesMarked ==
    LET f == frames[req'.sid]
    IN  /\ req'.event = "frame_mark" /\ req'.student_id # None
        /\ HasRecord(attendance, f.db_session_id, req'.student_id)
        /\ \A k \in DOMAIN f.records :
               f.records[k].student_id = req'.student_id => ~f.records[k].marked

\* C4 as stated: within one session, once an identity has been newly marked, later
\* frames that match the same identity do not call the ledger's mark again for it, and
\* an identity enters the session's marked set only when mark reported a new record;
\* for the streaming server as well as for the desktop loop.
C4_NoSecondMarkCall ==
    [][DesktopMarksOnce /\ (StreamSeesMarked => call' = NoCall)]_vars

\* C4 amended: in the desktop loop (start_attendance_session), once an identity has
\* been newly marked within a session, later frames that match it do not call the
\* ledger's mark again for it, and an identity enters marked_students only when mark
\* reported a new record.  The streaming server (handle_frame) keeps no marked set:
\* it calls the ledger's mark for every matched face of every frame, and for an
\* identity that is already marked the call inserts nothing and reports false.
C4_DesktopMarksOnceStreamAlways ==
    [][/\ DesktopMarksOnce
       /\ req'.event = "frame_mark" /\ req'.student_id # None
              => /\ call' # NoCall /\ call'.caller = Socket(req'.sid)
                 /\ PairOf(call') = <<frames[req'.sid].db_session_id, req'.student_id>>
       /\ StreamSeesMarked => ~call'.result /\ attendance' = attendance]_vars

\* at its second detection the desktop loop matched an identity of marked_students
\* and made no mark call
C4_Witness ==
    /\ req.event = "desk_mark"
    /\ req.student_id \in desk.marked_students
    /\ call = NoCall
    /\ desk.frame_count = 2 * detection_interval

\* the attendance_marked notifications among the events o
Notifications(o) == {o[k] : k \in {j \in DOMAIN o : o[j].event = "attendance_marked"}}

\* the step inserts the record of the pair a notification is about
Inserts(e) ==
    attendance'[<<e.db_session_id, e.student_id>>]
        = attendance[<<e.db_session_id, e.student_id>>] + 1

\* C5 as stated: in the streaming server an attendance_marked notification is emitted
\* for an identity only on the frame where that identity is newly marked, so over any
\* sequence of frames in one session at most one is emitted per identity.
C5_NotifiedOnlyWhenNew ==
    [][\A e \in Notifications(out') : e.marked /\ Inserts(e)]_vars

\* C5 amended: in the streaming server an attendance_marked notification is emitted
\* for every matched face of every processed frame of a connection with a linked
\* ledger session, unless the mark call itself raised; its marked field is true
\* exactly when that call inserted the identity's record, so the notifications for an
\* identity that is already marked carry marked = false.
C5_NotifiedEveryMatch ==
    [][/\ \A e \in Notifications(out') :
              /\ req'.event = "frame_mark" /\ req'.student_id = e.student_id
              /\ e.db_session_id = frames[req'.sid].db_session_id
              /\ e.marked <=> Inserts(e)
              /\ HasRecord(attendance, e.db_session_id, e.student_id) => ~e.marked
       /\ req'.event = "frame_mark" /\ req'.student_id # None
              => IF call'.fail = "raised"
                 THEN out' = <<>>
                 ELSE Len(out') = 1 /\ Notifications(out') # {}]_vars

\* a notification with marked = false for an identity that was already marked
C5_Witness ==
    \E e \in Notifications(out) : ~e.marked /\ e.message = "already_marked"

\* the sessions of the registry that have a linked ledger session
Linked == {id \in DOMAIN sessions : sessions[id].db_session_id # None}

\* every ledger session is linked to exactly one connection session
OneLedgerSessionEach ==
    /\ \A a, b \in Linked : sessions[a].db_session_id = sessions[b].db_session_id => a = b
    /\ Cardinality(Linked) = Len(db_sessions)

\* the step handles start_detection on a known connection
StartStep ==
    req'.event = "start_detection" /\ get_by_sid(sid_to_session, req'.sid) # None

\* C6: on one connection, across any sequence of start_detection and stop_detection
\* events, a ledger session is created only when none is linked: at most one ledger
\* session is ever created for the connection (a failed creation leaves none linked),
\* every detection_started reports that same ledger session id, and detection is
\* enabled after each start_detection.
C6_LedgerSessionCreatedOnce ==
    /\ []OneLedgerSessionEach
    /\ [][\A id \in DOMAIN sessions :
              sessions[id].db_session_id # None
                  => sessions'[id].db_session_id = sessions[id].db_session_id]_vars
    /\ [][StartStep =>
            LET id == get_by_sid(sid_to_session, req'.sid)
            IN  /\ sessions'[id].detection
                /\ out' = <<[event |-> "detection_started", sid |-> req'.sid,
                             session_id |-> id,
                             db_session_id |-> sessions'[id].db_session_id]>>
                /\ db_sessions' # db_sessions
                       => /\ sessions[id].db_session_id = None
                          /\ Len(db_sessions') = Len(db_sessions) + 1
                          /\ sessions'[id].db_session_id = Len(db_sessions')
                /\ sessions[id].db_session_id # None => db_sessions' = db_sessions]_vars

\* a start_detection after a stop_detection reported the ledger session the connection
\* already had, and no other ledger session exists
C6_Witness ==
    LET id == get_by_sid(sid_to_session, req.sid)
    IN  /\ req.event = "start_detection"
        /\ id # None
        /\ sessions[id].detection
        /\ Len(db_sessions) = 1
        /\ sessions[id].db_session_id = 1
        /\ db_sessions[1].end_time # None
        /\ out[1].event = "detection_started" /\ out[1].db_session_id = 1

\* the step handles a start_detection, stop_detection or frame event for a connection
\* that is not open: never connected, or already disconnected
EventWithoutConnection ==
    /\ req'.event \in {"start_detection", "stop_detection", "frame"}
    /\ req'.sid \notin connected

\* C7: start_detection, stop_detection and frame events for a connection that is
\* unknown or already disconnected are answered with an error (session not found) and
\* change nothing: no ledger session is created or closed, no session state is
\* modified, no mark is issued.
C7_UnknownConnectionRejected ==
    [][EventWithoutConnection =>
          /\ out' = <<Error(req'.sid, "session_not_found")>>
          /\ NothingProcessed]_vars

\* a stop_detection for a connection that disconnected with detection on was answered
\* with the error, and its ledger session is still open
C7_Witness ==
    /\ req.event = "stop_detection"
    /\ req.sid \notin connected
    /\ out = <<Error(req.sid, "session_not_found")>>
    /\ \E id \in DOMAIN sessions :
           /\ sessions[id].sid = req.sid
           /\ sessions[id].detection
           /\ sessions[id].db_session_id # None
           /\ db_sessions[sessions[id].db_session_id].end_time = None

\* the step handles stop_detection on a known connection whose detection flag is
\* already false: a stop_detection after the first one
RepeatedStop ==
    LET id == get_by_sid(sid_to_session, req'.sid)
    IN  /\ req'.event = "stop_detection"
        /\ id # None
        /\ ~sessions[id].detection

\* C8 as stated: stop_detection is idempotent: after a first stop_detection, a second
\* stop_detection on the same connection leaves the whole state as it was after the
\* first one (detection flag false, linked ledger session closed with the end_time set
\* by the first call).
C8_SecondStopChangesNothing ==
    [][RepeatedStop => UNCHANGED <<sessions, sid_to_session, db_sessions, attendance>>]_vars

\* C8 amended: after a first stop_detection, a second stop_detection on the same
\* connection leaves the detection flag false, the link to the ledger session, every
\* other ledger session and all attendance records as they were, and is answered with
\* detection_stopped again; but it calls end_session again, which overwrites the
\* end_time of the linked ledger session with the time of the second call (unless the
\* store fails), and it refreshes last_seen.
C8_SecondStopRestampsEndTime ==
    [][RepeatedStop =>
          LET id == get_by_sid(sid_to_session, req'.sid)
              linked == sessions[id].db_session_id
          IN  /\ UNCHANGED <<sessions, sid_to_session, connected, attendance, frames>>
              /\ call' = NoCall
              /\ out' = <<[event |-> "detection_stopped", sid |-> req'.sid,
                           session_id |-> id]>>
              /\ \/ db_sessions' = db_sessions
                 \/ /\ linked # None
                    /\ \E t \in Times :
                           /\ t >= Latest(db_sessions)
                           /\ db_sessions' = [db_sessions EXCEPT ![linked].end_time = t]]_vars

\* a stop_detection was handled on a connection whose detection was already off and
\* whose ledger session was closed, while another ledger session is still open
C8_Witness ==
    LET id == get_by_sid(sid_to_session, req.sid)
    IN  /\ req.event = "stop_detection" /\ req.payload = "off"
        /\ id # None
        /\ sessions[id].db_session_id # None
        /\ db_sessions[sessions[id].db_session_id].end_time = MaxTime
        /\ \E d \in DOMAIN db_sessions : db_sessions[d].end_time = None

\* C9 as stated: after a disconnect the connection session is removed from the
\* registry together with its reverse mapping: the registry holds no session entry
\* for that connection any more, so the number of stored connection sessions equals
\* the number of currently open connections after any sequence of connects and
\* disconnects.
C9_SessionsAreOpenConnections ==
    /\ \A id \in DOMAIN sessions : sessions[id].sid \in connected
    /\ Len(sessions) = Cardinality(connected)

\* C9 amended: after a disconnect the reverse mapping of the connection is removed and
\* its session is marked inactive, but the session entry stays in the registry: the
\* number of reverse mappings equals the number of currently open connections after
\* any sequence of connects and disconnects, and stored sessions are never removed.
C9_MappingsAreOpenConnections ==
    /\ [](/\ DOMAIN sid_to_session = connected
          /\ \A sid \in connected : sessions[sid_to_session[sid]].sid = sid)
    /\ [][/\ \A id \in DOMAIN sessions :
                 id \in DOMAIN sessions' /\ sessions'[id].sid = sessions[id].sid
          /\ req'.event = "disconnect"
                 => LET id == get_by_sid(sid_to_session, req'.sid)
                    IN  /\ id # None
                        /\ sessions' = [sessions EXCEPT ![id].active = FALSE]
                        /\ req'.sid \notin DOMAIN sid_to_session']_vars

\* one of two connections has disconnected: its session is still stored, inactive and
\* without reverse mapping
C9_Witness ==
    /\ Len(sessions) = 2 /\ Cardinality(connected) = 1
    /\ \E id \in DOMAIN sessions :
           /\ ~sessions[id].active
           /\ sessions[id].sid \notin DOMAIN sid_to_session

\* C10: a disconnect does not close the linked ledger session: the ledger session's
\* end_time and all attendance records are the same after handle_disconnect as before
\* it, so a connection that disconnects without stop_detection leaves its ledger
\* session open (end_time null).
C10_DisconnectLeavesLedger ==
    /\ [][req'.event = "disconnect" => UNCHANGED <<db_sessions, attendance>>]_vars
    /\ [][\A d \in DOMAIN db_sessions :
              db_sessions'[d].end_time # db_sessions[d].end_time
                  => req'.event = "stop_detection"]_vars

\* a connection disconnected with detection on: its ledger session holds a record and
\* is still open
C10_Witness ==
    /\ req.event = "disconnect"
    /\ \E id \in DOMAIN sessions :
           /\ sessions[id].sid = req.sid
           /\ ~sessions[id].active /\ sessions[id].detection
           /\ sessions[id].db_session_id # None
           /\ db_sessions[sessions[id].db_session_id].end_time = None
           /\ \E i \in Students : HasRecord(attendance, sessions[id].db_session_id, i)

\* the error outcomes of a frame event on a known connection
FrameErrors ==
    {"payload_not_object", "image_missing", "decode_failed", "image_none",
     "detection_failed"}

\* the step handles a frame event and ends in one of the error outcomes
FrameFails ==
    /\ req'.event = "frame"
    /\ Len(out') = 1
    /\ "detail" \in DOMAIN out'[1]
    /\ out'[1].detail \in FrameErrors

\* the step handles a frame event of a known connection whose payload is not an
\* object or carries no image, or whose image cannot be decoded when decoding is
\* reached (detection enabled)
FrameUnusable ==
    LET id == get_by_sid(sid_to_session, req'.sid)
    IN  /\ req'.event = "frame"
        /\ id # None
        /\ \/ req'.payload \in {"not_object", "no_image"}
           \/ req'.payload \in {"bad_base64", "not_image"} /\ sessions[id].detection

\* the step handles a frame event with a decodable image on a known connection whose
\* detection is enabled
FrameUsable ==
    LET id == get_by_sid(sid_to_session, req'.sid)
    IN  /\ req'.event = "frame" /\ req'.payload = "image"
        /\ id # None
        /\ sessions[id].detection

\* the frame reached the detection: it raised (error), or it returned and the frame
\* ends with its detection_result, at once or after the loop over its faces
FrameDetected ==
    \/ out' = <<>> /\ frames'[req'.sid].pc = "marking"
    \/ Len(out') = 1 /\ out'[1].event = "detection_result"
    \/ Len(out') = 1 /\ out'[1].event = "error" /\ out'[1].detail = "detection_failed"

\* C11: any error outcome of a frame event in the streaming server (payload not an
\* object, image missing, image not decodable, detection raising) is reported as an
\* error notification, inserts no attendance record, and leaves the connection
\* session intact: detection flag and linked ledger session are unchanged and the
\* next valid frame is still processed.
C11_FrameErrorLeavesSession ==
    /\ [][FrameFails => out'[1].event = "error" /\ NothingProcessed]_vars
    /\ [][FrameUnusable => Len(out') = 1 /\ out'[1].event = "error"]_vars
    /\ [][FrameUsable => FrameDetected]_vars
    /\ [][(req.event = "frame" /\ Len(out) = 1 /\ out[1].event = "error"
              /\ FrameUsable /\ req'.sid = req.sid)
            => FrameDetected /\ (out' = <<>> => call' = NoCall)]_vars

\* a frame whose image could not be decoded was answered with the error on a
\* connection that keeps its detection flag, its linked ledger session and the record
\* an earlier frame inserted
C11_Witness ==
    LET id == get_by_sid(sid_to_session, req.sid)
    IN  /\ req.event = "frame" /\ req.payload = "bad_base64"
        /\ out = <<[event |-> "error", sid |-> req.sid, detail |-> "decode_failed"]>>
        /\ id # None
        /\ sessions[id].detection /\ sessions[id].db_session_id # None
        /\ \E i \in Students : HasRecord(attendance, sessions[id].db_session_id, i)
        /\ frames[req.sid].pc = "idle"

\* the step answers a one-shot detect request whose image payload cannot be decoded
\* into a frame
DetectUndecodable ==
    /\ req'.event = "detect"
    /\ req'.payload \in {"bad_base64", "not_image"}

\* C12 as stated: a one-shot detect request whose image payload cannot be decoded into
\* a frame is answered with a reported decode error (not an unhandled failure), and no
\* attendance record is inserted for the given session.
C12_UndecodableReported ==
    [][DetectUndecodable =>
          /\ Len(out') = 1 /\ out'[1].status = 400
          /\ attendance' = attendance
          /\ detect'.pc = "idle"]_vars

\* a detect request whose payload is base64 of bytes that are no image was answered
\* with the unhandled failure
C12_Witness ==
    /\ req.event = "detect" /\ req.payload = "not_image"
    /\ out = <<Http(500, "error")>>
    /\ detect.pc = "idle"

\* the step is an iteration of handle_frame's loop whose mark call hit a store failure
MarkFailsInFrame ==
    /\ req'.event = "frame_mark"
    /\ call' # NoCall /\ call'.fail # "none"

\* the record of the detection_result's attendance list that the step appends
Appended(sid) == frames'[sid].records[Len(frames'[sid].records)]

\* C13: a store failure while marking one identity of a frame yields a reported
\* outcome for that identity (marked = false) and does not stop the remaining matched
\* identities of the same frame from being marked and reported; the frame still ends
\* with its detection_result.
C13_StoreFailureDoesNotStopFrame ==
    \* the failed identity gets its entry, with marked = false, and the loop goes on
    /\ [][MarkFailsInFrame =>
            LET sid == req'.sid
            IN  /\ frames'[sid].pc = "marking"
                /\ Len(frames'[sid].records) = Len(frames[sid].records) + 1
                /\ Appended(sid).student_id = req'.student_id
                /\ ~Appended(sid).marked
                /\ attendance' = attendance
                /\ \A e \in Notifications(out') : ~e.marked]_vars
    \* the faces after it are marked and reported as if nothing had failed
    /\ [][req'.event = "frame_mark" /\ call' # NoCall /\ call'.fail = "none" =>
            LET sid == req'.sid
                p == PairOf(call')
            IN  /\ call'.result <=> attendance[p] = 0
                /\ attendance'[p] = 1
                /\ Appended(sid).student_id = req'.student_id
                /\ Appended(sid).marked = call'.result
                /\ \E e \in Notifications(out') :
                       e.student_id = req'.student_id /\ e.marked = call'.result]_vars
    \* the loop is left only through the detection_result, which carries every entry
    /\ [][\A sid \in Sids :
              frames[sid].pc = "marking" /\ frames'[sid].pc # "marking"
                  => /\ req'.event = "frame_result" /\ req'.sid = sid
                     /\ Len(out') = 1 /\ out'[1].event = "detection_result"
                     /\ out'[1].attendance = frames[sid].records]_vars

\* a frame ended with its detection_result after the mark of its first identity had
\* failed and its second identity had been newly marked
C13_Witness ==
    /\ req.event = "frame_result"
    /\ Len(out) = 1 /\ out[1].event = "detection_result"
    /\ Len(out[1].attendance) = 2
    /\ ~out[1].attendance[1].marked
    /\ out[1].attendance[1].message \in {"null", "db_error"}
    /\ out[1].attendance[2].marked
    /\ out[1].attendance[2].student_id # out[1].attendance[1].student_id
    /\ attendance[<<out[1].db_session_id, out[1].attendance[1].student_id>>] = 0

\* the step makes a mark call for a pair that already has its record, and the call
\* returns
MarkAgain ==
    /\ call' # NoCall /\ call'.fail # "raised"
    /\ HasRecord(attendance, call'.session_id, call'.student_id)

\* the step makes a mark call for a pair without record, and the store does not fail
MarkFresh ==
    /\ call' # NoCall /\ call'.fail = "none"
    /\ ~HasRecord(attendance, call'.session_id, call'.student_id)

\* the outcome the caller-facing path reports for the mark call of the step: the
\* attendance_marked notification of a socket frame, the entry of the detect
\* request's students list, the reply of the direct mark request
Reported(marked) ==
    CASE call'.caller.kind = "socket" ->
             /\ \E e \in Notifications(out') :
                    /\ e.student_id = call'.student_id
                    /\ e.marked = marked
                    /\ e.message = IF marked THEN "marked"
                                   ELSE IF call'.fail = "none" THEN "already_marked"
                                   ELSE "null"
             /\ Len(out') = 1
      [] call'.caller.kind = "detect" ->
             /\ detect'.students[Len(detect'.students)] =
                    [student_id |-> call'.student_id, marked |-> marked,
                     already_present |-> ~marked]
             /\ out' = <<>>
      [] call'.caller.kind = "rest" ->
             out' = <<Http(200, "marked")>> <=> marked
      [] OTHER -> TRUE

\* no error event and no error status among what the step emits or replies
NoErrorOutcome ==
    \A k \in DOMAIN out' :
        /\ out'[k].event # "error"
        /\ out'[k].event = "http" => out'[k].status = 200

Nearest(known_encodings, probe) ==
    {k \in DOMAIN known_encodings :
        \A j \in DOMAIN known_encodings :
            Abs(known_encodings[k] - probe) <= Abs(known_encodings[j] - probe)}

\* the gallery indices the probe may be matched to: at minimum distance, and that
\* distance strictly below the tolerance
Acceptable(known_encodings, tolerance, probe) ==
    {k \in Nearest(known_encodings, probe) : Abs(known_encodings[k] - probe) < tolerance}

\* the entries of the result are, in the order of the faces, one entry for each face
\* that has an acceptable index and none for the others; the entry names an
\* acceptable index (the lowest one, when lowest is asked for) and its distance
RECURSIVE Attributed(_, _, _)
Attributed(entries, probes, lowest) ==
    IF probes = <<>> THEN entries = <<>>
    ELSE LET ks == Acceptable(req.known_encodings, req.tolerance, Head(probes))
         IN  IF ks = {} THEN Attributed(entries, Tail(probes), lowest)
             ELSE /\ entries # <<>>
                  /\ Head(entries).student \in ks
                  /\ Head(entries).distance =
                         Abs(req.known_encodings[Head(entries).student] - Head(probes))
                  /\ lowest => \A k \in ks : Head(entries).student <= k
                  /\ Attributed(Tail(entries), Tail(probes), lowest)

\* C15: for every non-empty gallery, tolerance T and probe vector P, the matcher
\* accepts a match to gallery index k if and only if k is the index of minimum
\* distance and distance(P, gallery[k]) < T (strict); a face whose best distance is
\* >= T produces no entry in the result.
C15_AcceptsNearestBelowTolerance ==
    req.event = "detect_faces" /\ Len(req.known_encodings) > 0
        => Attributed(out, req.face_encodings, FALSE)

\* of the two faces of a frame the first was matched and the second, whose best
\* distance equals the tolerance, was left out of the result
C15_Witness ==
    /\ req.event = "detect_faces"
    /\ Len(req.known_encodings) = MaxGallery
    /\ Len(req.face_encodings) = 2
    /\ Len(out) = 1
    /\ Acceptable(req.known_encodings, req.tolerance, req.face_encodings[1]) # {}
    /\ \A k \in Nearest(req.known_encodings, req.face_encodings[2]) :
           Abs(req.known_encodings[k] - req.face_encodings[2]) = req.tolerance

\* C16: when several gallery entries are at the same minimum distance from the probe,
\* the matcher attributes the face to the one with the lowest gallery index.
C16_TieGoesToLowestIndex ==
    req.event = "detect_faces" => Attributed(out, req.face_encodings, TRUE)

\* the second and the third gallery entry are nearest to the probe, at the same
\* distance, and the face was attributed to the second
C16_Witness ==
    /\ req.event = "detect_faces"
    /\ Len(req.face_encodings) = 1
    /\ Acceptable(req.known_encodings, req.tolerance, req.face_encodings[1]) = {2, 3}
    /\ Len(out) = 1 /\ out[1].student = 2

\* the matcher was applied to a frame with an empty gallery
EmptyGalleryMatch == req.event = "detect_faces" /\ Len(req.known_encodings) = 0

\* the step answers a detect request that has its fields and finds no encoding in the
\* store
EmptyGalleryRequest ==
    /\ req'.event = "detect"
    /\ out' # <<Http(400, "missing_field")>>
    /\ Len(detect'.known_students) = 0

\* C17 as stated: an empty gallery is not an error: in the streaming path and in the
\* one-shot detect request alike, processing a frame against an empty gallery yields a
\* normal result with zero matches and zero marks.
C17_EmptyGalleryIsNormal ==
    /\ [](EmptyGalleryMatch => out = <<>> /\ call = NoCall)
    /\ [][EmptyGalleryRequest =>
            /\ \A k \in DOMAIN out' : out'[k].event = "http" => out'[k].status = 200
            /\ call' = NoCall
            /\ attendance' = attendance]_vars

\* C17 amended: an empty gallery is not an error for the matcher: processing a frame
\* against an empty gallery yields a normal result with zero matches and zero marks.
\* The one-shot detect request, however, rejects an empty gallery: after it has
\* reloaded the gallery it answers with a reported error (HTTP 400, no student
\* encoding available) without decoding the image, with zero matches and zero marks.
C17_EmptyGalleryRejectedByRequest ==
    /\ [](EmptyGalleryMatch => out = <<>> /\ call = NoCall)
    /\ [][EmptyGalleryRequest =>
            /\ out' = <<Http(400, "no_encodings")>>
            /\ detect'.pc = "idle"
            /\ call' = NoCall
            /\ attendance' = attendance]_vars
    /\ [][req'.event = "detect_mark" =>
            Len(detect.known_students) > 0 /\ call'.student_id \in Range(detect.known_students)]_vars

\* a detect request with a decodable image was rejected for its empty gallery, after
\* an earlier request had marked an identity of the gallery it had found
C17_Witness ==
    /\ req.event = "detect" /\ req.payload = "image"
    /\ out = <<Http(400, "no_encodings")>>
    /\ detect.known_students = <<>>
    /\ \E p \in called : attendance[p] = 1

\* the step is an iteration of the detect request's loop whose mark call returned
DetectMarks == req'.event = "detect_mark" /\ call'.fail # "raised"

\* the entry of the reply's students list that the step appends
Listed == detect'.students[Len(detect'.students)]

\* C18 as stated: in the one-shot detect request, each matched identity is reported
\* with marked = true exactly when no record existed for (session, identity) before
\* the request and already_present = not marked; submitting the same frame a second
\* time for the same session reports marked = false, already_present = true and the
\* same present count as after the first submission.
C18_MarkedIffNoRecordBefore ==
    /\ [][DetectMarks =>
            /\ Listed.student_id = req'.student_id
            /\ Listed.marked <=> req'.student_id \notin detect.before
            /\ Listed.already_present = ~Listed.marked]_vars
    /\ [][DetectMarks /\ ~call'.first =>
            /\ ~Listed.marked /\ Listed.already_present
            /\ attendance' = attendance]_vars

\* C18 amended: in the one-shot detect request, each matched identity is reported with
\* marked = true exactly when its mark call inserted the record, that is when no
\* record existed for (session, identity) at the time of the call and the store did
\* not fail, and already_present = not marked (so a store failure, and a second face
\* of the frame matched to the same identity, are reported with already_present =
\* true); submitting the same frame a second time for the same session, once the
\* first submission has recorded its identities, reports marked = false,
\* already_present = true, and the present count of the reply is the number of records
\* of the session, which no mark of the second submission changes.
C18_MarkedIffInserted ==
    /\ [][DetectMarks =>
            LET p == <<detect.session_id, req'.student_id>>
            IN  /\ Listed.student_id = req'.student_id
                /\ Listed.marked <=> (attendance[p] = 0 /\ call'.fail = "none")
                /\ Listed.already_present = ~Listed.marked
                /\ attendance'[p] = attendance[p] + (IF Listed.marked THEN 1 ELSE 0)
                /\ \A q \in Pairs \ {p} : attendance'[q] = attendance[q]
                /\ call'.fail = "none" => attendance'[p] = 1
                /\ Len(detect'.students) = Len(detect.students) + 1]_vars
    /\ [][req'.event = "detect_result" =>
            /\ attendance' = attendance
            /\ out'[1].status = 200 =>
                   /\ out'[1].students = detect.students
                   /\ out'[1].detected_count = Len(detect.students)
                   /\ out'[1].present =
                          Cardinality({i \in Students :
                                          HasRecord(attendance, detect.session_id, i)})]_vars

\* a second submission: the identity had its record when the request came in, a mark
\* call had been made for it before, and it is listed with marked = false and
\* already_present = true
C18_Witness ==
    /\ req.event = "detect_mark"
    /\ req.student_id \in detect.before
    /\ call.caller = Detect /\ call.fail = "none" /\ ~call.first
    /\ detect.students # <<>>
    /\ ~detect.students[Len(detect.students)].marked
    /\ detect.students[Len(detect.students)].already_present
    /\ attendance[<<detect.session_id, req.student_id>>] = 1

\* C19: events on one connection never change another connection's session state: for
\* any interleaving of events of connections A and B, B's detection flag and linked
\* ledger session change only through B's own events, and A and B never share a linked
\* ledger session.
C19_ConnectionsAreIsolated ==
    \* a stored session changes only in a step that handles an event of its connection
    /\ [][\A id \in DOMAIN sessions :
              sessions'[id] # sessions[id] => req'.sid = sessions[id].sid]_vars
    \* and so does the row of its linked ledger session
    /\ [][\A id \in Linked :
              db_sessions'[sessions[id].db_session_id] # db_sessions[sessions[id].db_session_id]
                  => req'.sid = sessions[id].sid]_vars
    \* a step that links a ledger session links a new one
    /\ [][\A id \in DOMAIN sessions :
              sessions'[id].db_session_id # sessions[id].db_session_id
                  => /\ sessions'[id].db_session_id = Len(db_sessions) + 1
                     /\ Len(db_sessions') = Len(db_sessions) + 1]_vars
    /\ [](\A a, b \in Linked : sessions[a].db_session_id = sessions[b].db_session_id => a = b)

\* two open connections with a ledger session each: the second has just stopped its
\* detection, the first still has its detection on and its ledger session open
C19_Witness ==
    /\ connected = {1, 2}
    /\ req.event = "stop_detection" /\ req.sid = 2
    /\ Linked = {sid_to_session[1], sid_to_session[2]}
    /\ sessions[sid_to_session[1]].detection
    /\ ~sessions[sid_to_session[2]].detection
    /\ db_sessions[sessions[sid_to_session[1]].db_session_id].end_time = None
    /\ db_sessions[sessions[sid_to_session[2]].db_session_id].end_time # None

\* the connection of the step's event has a frame past the detection check and has
\* been disconnected
AfterDisconnect ==
    /\ frames[req'.sid].pc = "marking"
    /\ req'.sid \notin connected

\* C20: if a disconnect arrives while a frame of that connection is already past the
\* detection check, the frame is not interrupted: the marks computed for it are still
\* committed to the Ledger, and the disconnect still removes the reverse mapping.
C20_DisconnectDoesNotInterruptFrame ==
    /\ [][req'.event = "disconnect" =>
            /\ frames' = frames
            /\ attendance' = attendance
            /\ req'.sid \notin DOMAIN sid_to_session'
            /\ DOMAIN sid_to_session' = DOMAIN sid_to_session \ {req'.sid}]_vars
    /\ [][req'.event = "frame_mark" /\ AfterDisconnect /\ req'.student_id # None =>
            LET p == <<frames[req'.sid].db_session_id, req'.student_id>>
            IN  /\ call' # NoCall /\ PairOf(call') = p
                /\ call'.fail = "none" => attendance'[p] = 1
                /\ call'.result <=> attendance'[p] = attendance[p] + 1
                /\ frames'[req'.sid].pc = "marking"
                /\ Len(frames'[req'.sid].records) = Len(frames[req'.sid].records) + 1]_vars
    /\ [][req'.event = "frame_result" /\ AfterDisconnect =>
            /\ Len(out') = 1 /\ out'[1].event = "detection_result"
            /\ out'[1].attendance = frames[req'.sid].records
            /\ attendance' = attendance]_vars

\* after the disconnect of its connection a frame inserted the record of an identity;
\* the reverse mapping is gone
C20_Witness ==
    /\ req.event = "frame_mark"
    /\ req.sid \notin connected /\ req.sid \notin DOMAIN sid_to_session
    /\ frames[req.sid].pc = "marking"
    /\ call.caller = Socket(req.sid) /\ call.result
    /\ attendance[PairOf(call)] = 1
    /\ ~sessions[frames[req.sid].session].active

\* ---------------------------------------------------------------------- C21
\* the students stored with an encoding
Encoded(table) == {i \in DOMAIN table : table[i] = "encoding"}

\* the step is an enrollment, a deletion or a session creation that the REST server
\* answered with success
RestCompleted ==
    /\ req'.event \in {"create_student", "delete_student", "create_session"}
    /\ out'[1].status = 200

\* the step is a start_detection that the streaming server answered with
\* detection_started
StartCompleted ==
    /\ req'.event = "start_detection"
    /\ out'[1].event = "detection_started"

\* C21 as stated: after any enrollment, deletion or session start has completed, the
\* in-memory gallery used for matching equals the set of stored identities that have a
\* feature vector at that moment, for session starts made through the streaming
\* server's start_detection as well as through the session-creation request.
C21_GalleryFollowsStore ==
    [][/\ RestCompleted => Range(detect'.known_students) = Encoded(students')
       /\ StartCompleted => Range(main_known_students') = Encoded(students')]_vars

\* a start_detection has completed, a ledger session was created for it, and the
\* streaming server's gallery lacks a student that the REST server's gallery has
C21_Witness ==
    /\ req.event = "start_detection" /\ Len(out) = 1
    /\ out[1].event = "detection_started" /\ out[1].db_session_id # None
    /\ Range(detect.known_students) = Encoded(students)
    /\ Range(main_known_students) # Encoded(students)

\* ---------------------------------------------------------------------- C22
\* every table of at most MaxStudents rows, removed rows included
AllTables == UNION {[1..k -> {"null", "encoding", "removed"}] : k \in 0..MaxStudents}

\* the gallery of the REST server's detector, as the matcher reads it
Gallery(detector) ==
    [encodings |-> detector.known_encodings, students_info |-> detector.known_students]

\* the two lists are one snapshot: what get_student_encodings returned for one table
OneSnapshot(gallery) == \E table \in AllTables : gallery = get_student_encodings(table)

Unencoded(table) == {i \in DOMAIN table : table[i] = "null"}

\* C23: an identity stored without a feature vector never appears in a gallery
\* snapshot, and no mark call of the detect request is made for it: the student a
\* detection marks has an encoding in the store.
C23_NoVectorNeverMatched ==
    /\ Range(detect.known_students) \cap Unencoded(students) = {}
    /\ call # NoCall /\ call.caller = Detect =>
           /\ call.student_id \notin Unencoded(students)
           /\ call.student_id \in Encoded(students)

\* a detect request has marked a student of the gallery while another student is
\* stored without an encoding
C23_Witness ==
    /\ req.event = "detect_mark"
    /\ call # NoCall /\ call.caller = Detect /\ call.result
    /\ Unencoded(students) # {}
    /\ Len(detect.known_students) > 0

\* ---------------------------------------------------------------------- C24
\* the step answers an enrollment whose photo shows no face or more than one face
EnrollsWrongFaceCount ==
    /\ req'.event = "create_student"
    /\ req'.payload \in {"no_face", "many_faces"}

\* C24: an enrollment with a photo in which zero faces or more than one face are
\* located is rejected with a reported error (HTTP 400) and creates no identity row;
\* the gallery is unchanged.
C24_WrongFaceCountRejected ==
    [][EnrollsWrongFaceCount =>
           /\ Len(out') = 1 /\ out'[1].event = "http" /\ out'[1].status = 400
           /\ students' = students
           /\ Gallery(detect') = Gallery(detect)]_vars

\* an enrollment that had its fields was rejected for the photo's two faces, after a
\* student had been enrolled and loaded into the gallery
C24_Witness ==
    /\ req.event = "create_student" /\ req.payload = "many_faces"
    /\ out = <<Http(400, "photo_error")>>
    /\ students = <<"encoding">>
    /\ detect.known_students = <<1>>

\* ---------------------------------------------------------------------- C25
\* the stored students and the students with an attendance record in session s
Enrolled == {i \in DOMAIN students : students[i] # "removed"}
Present(s) == {i \in Students : HasRecord(attendance, s, i)}

\* C25: session_stats(s) returns total = the number of all enrolled identities, the
\* same for every s, present = the number of attendance records of session s, absent =
\* total - present and percentage = present / total * 100, which is 0 when total is 0;
\* the reply of the end-of-session request carries these numbers.
C25_SessionStats ==
    /\ [](\A s \in DbIds :
            LET stats == get_session_stats(students, attendance, s)
            IN  /\ stats.total = Cardinality(Enrolled)
                /\ stats.present = Cardinality(Present(s))
                /\ stats.absent = stats.total - stats.present
                /\ stats.total = 0 => stats.percentage.num = 0
                /\ stats.total > 0 =>
                       stats.percentage.num * stats.total
                           = stats.present * 100 * stats.percentage.den)
    /\ [][req'.event = "end_session" /\ out'[1].status = 200 =>
            /\ out'[1].statistics.total_students = Cardinality(Enrolled)
            /\ out'[1].statistics.present = Cardinality(Present(out'[1].session_id))
            /\ out'[1].statistics.absent
                   = Cardinality(Enrolled) - Cardinality(Present(out'[1].session_id))]_vars

\* the end-of-session request of session 1 has reported one student present out of
\* two, one of them stored without an encoding, while session 2 has no record
C25_Witness ==
    /\ req.event = "end_session" /\ Len(out) = 1 /\ out[1].status = 200
    /\ out[1].session_id = 1
    /\ out[1].statistics = [total_students |-> 2, present |-> 1, absent |-> 1,
                            attendance_rate |-> 5000]
    /\ Unencoded(students) # {}
    /\ Present(2) = {}

\* ---------------------------------------------------------------------- C26
\* the step ends an iteration of the desktop loop: the frame was read and shown
IterationEnds ==
    \/ req'.event = "desk_frame" /\ desk'.frame_count = desk.frame_count + 1
                                 /\ desk'.pc # "faces"
    \/ req'.event = "desk_show"

\* C26: in the desktop loop, marking is attempted only on iterations whose frame
\* number is a multiple of 30 and the overlay is refreshed only on iterations whose
\* frame number is a multiple of 5.  The two periods do not depend on each other:
\* every iteration whose frame number is a multiple of 30 is given to detection, and
\* every iteration that reaches its end refreshes the overlay exactly when its frame
\* number is a multiple of 5, whether marking was due in it or not.
C26_IndependentPeriods ==
    [][/\ req'.event = "desk_mark" => desk.frame_count % 30 = 0
       /\ call' # NoCall /\ call'.caller = Desk => desk.frame_count % 30 = 0
       /\ req'.event = "desk_frame" /\ desk'.frame_count = desk.frame_count + 1 =>
              (desk'.pc = "faces" <=> desk'.frame_count % 30 = 0)
       /\ req'.event \in {"desk_frame", "desk_show"} /\ req'.payload = "overlay" =>
              desk'.frame_count % 5 = 0
       /\ IterationEnds =>
              (req'.payload = "overlay" <=> desk'.frame_count % 5 = 0)]_vars

\* the thirtieth iteration has marked a student and then refreshed the overlay
C26_Witness ==
    /\ req.event = "desk_show" /\ req.payload = "overlay"
    /\ desk.frame_count = 30
    /\ desk.marked_students # {}
    /\ \E i \in Students : attendance[<<1, i>>] = 1

\* ---------------------------------------------------------------------- C27
\* C27: with a tolerance of at most 1, every accepted match has a distance d with
\* 0 <= d < tolerance and a confidence (1 - d) * 100 with 0 < confidence <= 100; on
\* the grid, where 1 is Scale steps, the confidence is the percentage
\* (Scale - d) * 100 / Scale.
C27_ConfidenceInRange ==
    req.event = "detect_faces" /\ req.tolerance <= Scale =>
        \A k \in DOMAIN out :
            /\ 0 <= out[k].distance /\ out[k].distance < req.tolerance
            /\ 0 < out[k].confidence /\ out[k].confidence <= 100
            /\ out[k].confidence * Scale <= (Scale - out[k].distance) * 100
            /\ (Scale - out[k].distance) * 100 < (out[k].confidence + 1) * Scale

\* with the tolerance 1, a face at distance 0 was accepted with confidence 100 and a
\* face one step below the tolerance with a confidence below 100
C27_Witness ==
    /\ req.event = "detect_faces" /\ req.tolerance = Scale
    /\ Len(out) = 2
    /\ out[1].distance = 0 /\ out[1].confidence = 100
    /\ out[2].distance = Scale - 1
    /\ out[2].confidence > 0 /\ out[2].confidence < 100

\* ---------------------------------------------------------------------- C28
\* the entries of the result carry, in the order of the accepted faces, the location
\* of their face with each of its four components multiplied by 4
RECURSIVE Located(_, _, _)
Located(entries, probes, locations) ==
    IF probes = <<>> THEN entries = <<>>
    ELSE IF Acceptable(req.known_encodings, req.tolerance, Head(probes)) = {}
         THEN Located(entries, Tail(probes), Tail(locations))
         ELSE /\ entries # <<>>
              /\ Len(Head(entries).location) = 4
              /\ \A c \in 1..4 : Head(entries).location[c] = 4 * Head(locations)[c]
              /\ Located(Tail(entries), Tail(probes), Tail(locations))

\* C28: every accepted match located at the downscaled region (t, r, b, l) is reported
\* at the region (4t, 4r, 4b, 4l), component by component and in the same (top, right,
\* bottom, left) order.
C28_LocationScaledByFour ==
    req.event = "detect_faces" => Located(out, req.face_encodings, req.face_locations)

\* two faces at different regions of the reduced frame were both accepted and are
\* reported at four times their regions
C28_Witness ==
    /\ req.event = "detect_faces"
    /\ req.face_locations = <<(<<0, 2, 1, 0>>), (<<1, 2, 2, 1>>)>>
    /\ Len(out) = 2
    /\ out[1].location = <<0, 8, 4, 0>>
    /\ out[2].location = <<4, 8, 8, 4>>

\* ---------------------------------------------------------------------- C29
\* the step opens a session for a connection id that has one
SecondOpen == req'.event = "connect" /\ req'.sid \in DOMAIN sid_to_session

\* C29: opening a session twice for the same connection id creates two distinct
\* sessions: after the second open, lookups by that connection id resolve to the
\* second session, which has detection disabled and no linked ledger session,
\* whatever the state of the first session, which stays stored as it was.
C29_SecondOpenIsNewSession ==
    [][SecondOpen =>
           LET first == get_by_sid(sid_to_session, req'.sid)
               second == get_by_sid(sid_to_session', req'.sid)
           IN  /\ second # None /\ second # first
               /\ second \in DOMAIN sessions' /\ second \notin DOMAIN sessions
               /\ ~sessions'[second].detection
               /\ sessions'[second].db_session_id = None
               /\ sessions'[second].active
               /\ \A id \in DOMAIN sessions : sessions'[id] = sessions[id]]_vars

\* a session was opened again for connection 1 while its first session had detection
\* enabled and a ledger session linked
C29_Witness ==
    /\ req.event = "connect" /\ req.sid = 1
    /\ Len(sessions) = 2
    /\ sessions[1].detection /\ sessions[1].db_session_id # None
    /\ get_by_sid(sid_to_session, 1) = 2
    /\ ~sessions[2].detection /\ sessions[2].db_session_id = None

\* ---------------------------------------------------------------------------------
\* C30
\* ---------------------------------------------------------------------------------

Terminal == {"error", "detection_skipped", "detection_result"}

\* the terminal notifications among the events a step emitted
Terminals(o) == {k \in DOMAIN o : o[k].event \in Terminal}

\* the step answered the sender of the frame with exactly one terminal notification
\* and nothing else, and the frame is over
OneTerminal(sid) ==
    /\ Len(out') = 1 /\ Terminals(out') = {1}
    /\ out'[1].sid = sid
    /\ frames'[sid].pc = "idle"

\* the step entered the loop over the faces of the frame without any notification yet
LoopEntered(sid) ==
    /\ out' = <<>>
    /\ frames[sid].pc = "idle" /\ frames'[sid].pc = "marking"

\* C30: every frame event handled by the streaming server produces exactly one
\* terminal notification to the sender, one of error, detection_skipped or
\* detection_result; a frame that is decoded and detected successfully with detection
\* enabled always ends with exactly one detection_result, also when marking fails.
C30_OneTerminalNotification ==
    \* the first step of the handler ends the frame with its one terminal notification,
    \* or enters the loop over the faces having emitted none
    /\ [][req'.event = "frame" => OneTerminal(req'.sid) \/ LoopEntered(req'.sid)]_vars
    \* decoded, detection enabled and no error: the loop, or the detection_result
    /\ [][FrameUsable /\ ~LoopEntered(req'.sid)
              /\ ~(Len(out') = 1 /\ out'[1].event = "error")
            => OneTerminal(req'.sid) /\ out'[1].event = "detection_result"]_vars
    \* the loop emits no terminal notification and goes on, also when the mark fails
    /\ [][req'.event = "frame_mark" =>
            /\ Terminals(out') = {}
            /\ frames[req'.sid].pc = "marking" /\ frames'[req'.sid].pc = "marking"]_vars
    \* the loop is left only through the one detection_result
    /\ [][\A sid \in Sids :
              frames[sid].pc = "marking" /\ frames'[sid].pc # "marking"
                  => /\ req'.event = "frame_result" /\ req'.sid = sid
                     /\ OneTerminal(sid) /\ out'[1].event = "detection_result"]_vars
    \* no other step ends or starts a frame, or emits a reply to a frame
    /\ [][req'.event \notin {"frame", "frame_mark", "frame_result"} =>
            /\ frames' = frames
            /\ \A k \in DOMAIN out' :
                   out'[k].event \notin {"detection_skipped", "detection_result"}]_vars
    \* a frame in the loop reaches its detection_result
    /\ \A sid \in Sids :
           (frames[sid].pc = "marking")
               ~> (req.event = "frame_result" /\ req.sid = sid
                      /\ Len(out) = 1 /\ out[1].event = "detection_result")

\* a frame with two matched faces ended with its detection_result after the store
\* call had raised for both of them
C30_Witness ==
    /\ req.event = "frame_result"
    /\ Len(out) = 1 /\ out[1].event = "detection_result"
    /\ out[1].faces = 2
    /\ Len(out[1].attendance) = 2
    /\ \A k \in 1..2 : out[1].attendance[k].message = "db_error"

\* ---------------------------------------------------------------------------------
\* C31
\* ---------------------------------------------------------------------------------

\* identity and marked value of each element of a sequence of entries or notifications
Marks(seq) == [k \in DOMAIN seq |-> <<seq[k].student_id, seq[k].marked>>]

\* an entry of the attendance list that the handler appended after emitting its
\* attendance_marked notification (the other entries are those of the except branch)
Notified(entry) == entry.message # "db_error"

\* the attendance list of the detection_result has exactly the entries of the frame's
\* attendance_marked notifications, in their order and with their marked values
C31_EntryPerNotification ==
    [][req'.event = "frame_result" =>
          Marks(out'[1].attendance) = Marks(frames[req'.sid].emitted)]_vars

\* C31: for one processed frame, all attendance_marked notifications are emitted
\* before that frame's detection_result, and the attendance list of the
\* detection_result has one entry per attendance_marked notification of that frame, in
\* the same order and with the same marked value, plus one entry with marked = false
\* and no notification for each identity whose mark call raised.
C31_NotificationsBeforeResult ==
    \* a notification is emitted only inside the loop of a frame, before its result
    /\ [][Notifications(out') # {} =>
            /\ req'.event = "frame_mark"
            /\ Len(out') = 1
            /\ frames[req'.sid].pc = "marking" /\ frames'[req'.sid].pc = "marking"
            /\ frames'[req'.sid].emitted = Append(frames[req'.sid].emitted, out'[1])]_vars
    /\ [][req'.event = "frame_mark" /\ out' = <<>> =>
            frames'[req'.sid].emitted = frames[req'.sid].emitted]_vars
    \* the result comes alone, ends the frame, and lists the notified entries in order
    /\ [][req'.event = "frame_result" =>
            LET f == frames[req'.sid]
                attendance_records == out'[1].attendance
            IN  /\ Len(out') = 1 /\ out'[1].event = "detection_result"
                /\ frames'[req'.sid] = IdleFrame
                /\ Marks(SelectSeq(attendance_records, Notified)) = Marks(f.emitted)
                /\ \A k \in DOMAIN attendance_records :
                       ~Notified(attendance_records[k]) => ~attendance_records[k].marked]_vars

\* a frame ended with a detection_result of two entries: the first, newly marked, had
\* its notification; the second, whose mark call raised, had none
C31_Witness ==
    /\ req.event = "frame_result"
    /\ Len(out) = 1 /\ out[1].event = "detection_result"
    /\ Len(out[1].attendance) = 2
    /\ out[1].attendance[1].marked /\ Notified(out[1].attendance[1])
    /\ ~Notified(out[1].attendance[2])
    /\ out[1].attendance[1].student_id # out[1].attendance[2].student_id

\* ---------------------------------------------------------------------------------
\* C32
\* ---------------------------------------------------------------------------------

\* the pairs (ledger session, student) for which the step inserted an attendance record
Inserted == {p \in DOMAIN attendance : attendance'[p] > attendance[p]}

\* C32: no attendance record is ever inserted for a ledger session whose end_time is
\* already set: in particular after stop_detection followed by start_detection on the
\* same connection (which reuses the linked, already closed ledger session), and for a
\* frame whose processing interleaves with stop_detection.
C32_NoInsertAfterEnd ==
    [][\A p \in Inserted :
           p[1] \in DOMAIN db_sessions /\ db_sessions[p[1]].end_time = None]_vars

\* a frame of a connection whose detection was stopped and started again inserted a
\* record for the linked ledger session, which stop_detection had closed
C32_Witness ==
    /\ req.event = "frame_mark"
    /\ call # NoCall /\ call.result
    /\ attendance[<<call.session_id, call.student_id>>] = 1
    /\ db_sessions[call.session_id].end_time # None
    /\ 1 \in DOMAIN sid_to_session
    /\ sessions[sid_to_session[1]].detection
    /\ sessions[sid_to_session[1]].db_session_id = call.session_id

\* ---------------------------------------------------------------------------------
\* C33
\* ---------------------------------------------------------------------------------

\* the step handles start_detection for a known connection without linked ledger
\* session
StartUnlinked ==
    LET id == get_by_sid(sid_to_session, req'.sid)
    IN  /\ req'.event = "start_detection"
        /\ id # None
        /\ sessions[id].db_session_id = None

\* the step handles a frame with a decodable image on a known connection whose
\* detection is enabled and which has no linked ledger session
FrameUnlinked ==
    FrameUsable /\ sessions[get_by_sid(sid_to_session, req'.sid)].db_session_id = None

\* C33: if creating the ledger session fails during start_detection, detection is
\* still enabled with no linked ledger session: subsequent frames are processed and
\* answered with a detection_result whose attendance list is empty, no mark is issued,
\* and the next start_detection on that connection retries the creation.
C33_StartWithoutLedgerSession ==
    \* the creation failed (no ledger session was added): detection is on, nothing linked
    /\ [][StartUnlinked /\ db_sessions' = db_sessions =>
            LET id == get_by_sid(sid_to_session, req'.sid)
            IN  /\ sessions'[id].detection
                /\ sessions'[id].db_session_id = None
                /\ Len(out') = 1 /\ out'[1].event = "detection_started"
                /\ out'[1].db_session_id = None]_vars
    \* frames of such a connection: detection_result with an empty list (or the error
    \* of a detection that raised), no mark call, no record
    /\ [][FrameUnlinked =>
            /\ Len(out') = 1
            /\ \/ out'[1].event = "detection_result" /\ out'[1].attendance = <<>>
               \/ out'[1].event = "error" /\ out'[1].detail = "detection_failed"
            /\ frames'[req'.sid].pc = "idle"
            /\ call' = NoCall /\ called' = called
            /\ attendance' = attendance]_vars
    \* every start_detection of an unlinked connection tries the creation: a ledger
    \* session that gets created is linked
    /\ [][StartUnlinked /\ db_sessions' # db_sessions =>
            LET id == get_by_sid(sid_to_session, req'.sid)
            IN  /\ db_sessions' = Append(db_sessions, [end_time |-> None])
                /\ sessions'[id].db_session_id = Len(db_sessions')
                /\ sessions'[id].detection]_vars

\* a frame with two faces was answered with a detection_result whose attendance list
\* is empty, on a connection whose detection is enabled without linked ledger session
\* (its creation had failed), and no mark was ever issued
C33_Witness ==
    /\ req.event = "frame"
    /\ Len(out) = 1 /\ out[1].event = "detection_result"
    /\ out[1].faces = MaxFaces /\ out[1].attendance = <<>>
    /\ out[1].db_session_id = None
    /\ sessions[out[1].session_id].detection
    /\ sessions[out[1].session_id].db_session_id = None
    /\ db_sessions = <<>>
    /\ called = {}

\* ---------------------------------------------------------------------------------
\* C34
\* ---------------------------------------------------------------------------------

\* C34: a newly opened connection session has detection disabled and no linked ledger
\* session, so every frame received before the first start_detection is skipped and
\* no ledger session exists for the connection until start_detection.
C34_NewSessionIsIdle ==
    \* the session that connect opens
    /\ [][req'.event = "connect" =>
            LET id == get_by_sid(sid_to_session', req'.sid)
            IN  /\ id \notin DOMAIN sessions /\ id \in DOMAIN sessions'
                /\ ~sessions'[id].detection
                /\ sessions'[id].db_session_id = None
                /\ db_sessions' = db_sessions]_vars
    \* a frame while detection is disabled is not decoded, detected or marked: it is
    \* acknowledged as skipped (or refused for a payload without image)
    /\ [][FrameWhileDisabled =>
            /\ Len(out') = 1
            /\ IF req'.payload \in {"not_object", "no_image"}
               THEN out'[1].event = "error"
               ELSE out'[1].event = "detection_skipped"
            /\ frames' = frames
            /\ call' = NoCall /\ called' = called
            /\ attendance' = attendance /\ db_sessions' = db_sessions
            /\ sessions' = sessions]_vars
    \* only the connection's own start_detection enables detection or links a ledger
    \* session
    /\ [][\A id \in DOMAIN sessions :
              \/ ~sessions[id].detection /\ sessions'[id].detection
              \/ sessions[id].db_session_id = None /\ sessions'[id].db_session_id # None
              => /\ req'.event = "start_detection"
                 /\ get_by_sid(sid_to_session, req'.sid) = id]_vars

\* a frame with a good image was acknowledged as skipped on a connection that has
\* never been started: detection is disabled and no ledger session exists at all
C34_Witness ==
    /\ req.event = "frame" /\ req.payload = "image"
    /\ Len(out) = 1 /\ out[1].event = "detection_skipped"
    /\ ~sessions[out[1].session_id].detection
    /\ sessions[out[1].session_id].db_session_id = None
    /\ db_sessions = <<>>

\* ---------------------------------------------------------------------------------
\* C35
\* ---------------------------------------------------------------------------------

\* C35: registry invariant after any sequence of connect, start, stop, frame and
\* disconnect events: every value of sid_to_session is a key of sessions, the session
\* it names has active = true and records that same sid, and every session with
\* active = true is reachable through sid_to_session.
C35_RegistryInvariant ==
    /\ \A sid \in DOMAIN sid_to_session :
           LET id == sid_to_session[sid]
           IN  /\ id \in DOMAIN sessions
               /\ sessions[id].active
               /\ sessions[id].sid = sid
    /\ \A id \in DOMAIN sessions :
           sessions[id].active =>
               /\ sessions[id].sid \in DOMAIN sid_to_session
               /\ sid_to_session[sessions[id].sid] = id

\* after the disconnect of the first connection, which had been started: its session
\* is kept, inactive and unmapped, while the second connection's session is active and
\* mapped
C35_Witness ==
    /\ req.event = "disconnect" /\ req.sid = 1
    /\ Len(sessions) = 2
    /\ ~sessions[1].active /\ sessions[1].db_session_id # None
    /\ sessions[2].active
    /\ DOMAIN sid_to_session = {2} /\ sid_to_session[2] = 2

\* ---------------------------------------------------------------------------------
\* C36
\* ---------------------------------------------------------------------------------

\* the desktop loop is running (between the start of a session and its end)
DeskRunning == desk.pc \in {"loop", "faces", "closing"}

\* the Ledger's present count of the desktop session
DeskPresent == Cardinality({i \in Students : attendance[<<desk.session_id, i>>] > 0})

\* C36: in the desktop loop, marked_students is empty when the session starts and, at
\* every iteration, every identity in marked_students has an attendance record for
\* the session in the Ledger; an identity whose record was inserted by another caller
\* (mark returns false) is never added, so the displayed count may be lower than the
\* Ledger's present count but never higher.
C36_MarkedStudentsInLedger ==
    /\ [][req'.event = "desk_start" => desk'.marked_students = {}]_vars
    /\ [](DeskRunning =>
            /\ \A i \in desk.marked_students : attendance[<<desk.session_id, i>>] > 0
            /\ Cardinality(desk.marked_students) <= DeskPresent)
    /\ [][req'.event = "desk_mark" /\ call' # NoCall /\ ~call'.result =>
            desk'.marked_students = desk.marked_students]_vars

\* the loop is running with a student in marked_students who has been deleted from the
\* store since, together with the attendance record: the displayed count is 1, the
\* Ledger's present count is 0
C36_Witness ==
    /\ desk.pc = "loop"
    /\ Cardinality(desk.marked_students) = 1
    /\ \E i \in desk.marked_students :
           students[i] = "removed" /\ attendance[<<desk.session_id, i>>] = 0
    /\ DeskPresent = 0

\* ---------------------------------------------------------------------------------
\* C37
\* ---------------------------------------------------------------------------------

\* start_attendance_session has just been called for ledger session 1
DeskStarted == req.event = "desk_start"

\* end_session has just been called for ledger session 1, which is closed
DeskSessionClosed == req.event = "desk_end" /\ db_sessions[1].end_time # None

\* C37: every desktop attendance session that is started eventually has its ledger
\* session closed (end_session called), on every exit path of
\* start_attendance_session: quit key, camera read failure, and camera that cannot be
\* opened.
C37_DeskSessionClosed == DeskStarted ~> DeskSessionClosed

\* start_attendance_session has returned because the camera could not be opened, and
\* the ledger session it was called for is still open
C37_Witness ==
    /\ req.event = "desk_start"
    /\ desk.pc = "off"
    /\ 1 \in DOMAIN db_sessions /\ db_sessions[1].end_time = None

\* ---------------------------------------------------------------------------------
\* C38
\* ---------------------------------------------------------------------------------

\* what get_session_stats reports for ledger session s in the current state
Stats(s) == get_session_stats(students, attendance, s)

\* C38: in every reachable state and for every session, session_stats reports
\* present <= total, hence absent >= 0 and percentage <= 100, after any sequence of
\* enrollments, deletions and marks (including direct mark requests with arbitrary
\* identity ids).
C38_PresentWithinTotal ==
    \A s \in DbIds :
        /\ Stats(s).present <= Stats(s).total
        /\ Stats(s).absent >= 0
        /\ Stats(s).percentage.num <= 100 * Stats(s).percentage.den

\* after a direct mark request for an identity id that no student has, the statistics
\* of the session are: one student in the store, two present, -1 absent, 200 percent
C38_Witness ==
    /\ req.event = "api_mark"
    /\ Len(students) = 1 /\ students[1] # "removed"
    /\ \E s \in DbIds :
           /\ attendance[<<s, 2>>] = 1
           /\ Stats(s).total = 1 /\ Stats(s).present = 2 /\ Stats(s).absent = -1
           /\ Stats(s).percentage = [num |-> 200, den |-> 1]

\* ---------------------------------------------------------------------------------
\* C39
\* ---------------------------------------------------------------------------------

\* the pairs (ledger session, student) that have an attendance record
Recorded == {p \in DOMAIN attendance : attendance[p] > 0}

\* C39: every attendance record refers to an identity that currently exists in the
\* store: deleting an identity removes all its attendance records, and no later mark
\* (for example one driven by a gallery snapshot taken before the deletion) re-creates
\* a record for the deleted identity.
C39_RecordsOfExistingStudents ==
    /\ [](\A p \in Recorded : HasStudent(students, p[2]))
    /\ [][\A i \in Students :
              HasStudent(students, i) /\ ~HasStudent(students', i) =>
                  \A p \in DOMAIN attendance : p[2] = i => attendance'[p] = 0]_vars
    /\ [][\A p \in Inserted : HasStudent(students', p[2])]_vars

\* the desktop loop, whose gallery was loaded when both students were enrolled, has
\* newly marked a student who had been deleted from the store before: the record
\* exists again, for an identity the store no longer has
C39_Witness ==
    /\ req.event = "desk_mark"
    /\ call # NoCall /\ call.result
    /\ students[req.student_id] = "removed"
    /\ attendance[<<desk.session_id, req.student_id>>] = 1
    /\ req.student_id \in desk.marked_students

====
